---- MODULE Spec2Model ----
(***************************************************************************)
(* Model of the monitoring service of aks-mentions-bot                     *)
(* (internal/monitoring/service.go): the fan-out/fan-in collection of      *)
(* mentions from the source adapters, the relevance / urgency / sentiment  *)
(* heuristics, and the hand-off to the storage and notification            *)
(* collaborators, for both entry points RunMonitoring and RunUrgentCheck.  *)
(***************************************************************************)
EXTENDS Integers, Sequences, FiniteSets, TLC

(***************************************************************************)
(* Bounds of the model.                                                    *)
(***************************************************************************)
\* number of the registered adapters that take part in the modelled runs
NumSources == 2

(***************************************************************************)
(* Go strings.  A string is kept as a TLA+ string; Chars gives its         *)
(* characters, which is what strings.ToLower and strings.Contains work on. *)
(***************************************************************************)
Chars ==
     ("aks" :> <<"a", "k", "s">>)
  @@ ("azure kubernetes service" :> <<"a", "z", "u", "r", "e", " ", "k", "u", "b", "e", "r", "n", "e", "t", "e", "s", " ", "s", "e", "r", "v", "i", "c", "e">>)
  @@ ("azure kubernetes" :> <<"a", "z", "u", "r", "e", " ", "k", "u", "b", "e", "r", "n", "e", "t", "e", "s">>)
  @@ ("azure container service" :> <<"a", "z", "u", "r", "e", " ", "c", "o", "n", "t", "a", "i", "n", "e", "r", " ", "s", "e", "r", "v", "i", "c", "e">>)
  @@ ("microsoft azure" :> <<"m", "i", "c", "r", "o", "s", "o", "f", "t", " ", "a", "z", "u", "r", "e">>)
  @@ ("azurecr.io" :> <<"a", "z", "u", "r", "e", "c", "r", ".", "i", "o">>)
  @@ ("azure cli" :> <<"a", "z", "u", "r", "e", " ", "c", "l", "i">>)
  @@ ("az aks" :> <<"a", "z", " ", "a", "k", "s">>)
  @@ ("azure devops" :> <<"a", "z", "u", "r", "e", " ", "d", "e", "v", "o", "p", "s">>)
  @@ ("azure container registry" :> <<"a", "z", "u", "r", "e", " ", "c", "o", "n", "t", "a", "i", "n", "e", "r", " ", "r", "e", "g", "i", "s", "t", "r", "y">>)
  @@ ("azure container apps" :> <<"a", "z", "u", "r", "e", " ", "c", "o", "n", "t", "a", "i", "n", "e", "r", " ", "a", "p", "p", "s">>)
  @@ ("kaito" :> <<"k", "a", "i", "t", "o">>)
  @@ ("kubefleet" :> <<"k", "u", "b", "e", "f", "l", "e", "e", "t">>)
  @@ ("azure kubernetes fleet" :> <<"a", "z", "u", "r", "e", " ", "k", "u", "b", "e", "r", "n", "e", "t", "e", "s", " ", "f", "l", "e", "e", "t">>)
  @@ ("azure kubernetes fleet manager" :> <<"a", "z", "u", "r", "e", " ", "k", "u", "b", "e", "r", "n", "e", "t", "e", "s", " ", "f", "l", "e", "e", "t", " ", "m", "a", "n", "a", "g", "e", "r">>)
  @@ ("kubernetes" :> <<"k", "u", "b", "e", "r", "n", "e", "t", "e", "s">>)
  @@ ("k8s" :> <<"k", "8", "s">>)
  @@ ("container" :> <<"c", "o", "n", "t", "a", "i", "n", "e", "r">>)
  @@ ("cluster" :> <<"c", "l", "u", "s", "t", "e", "r">>)
  @@ ("deployment" :> <<"d", "e", "p", "l", "o", "y", "m", "e", "n", "t">>)
  @@ ("helm" :> <<"h", "e", "l", "m">>)
  @@ ("kubectl" :> <<"k", "u", "b", "e", "c", "t", "l">>)
  @@ ("namespace" :> <<"n", "a", "m", "e", "s", "p", "a", "c", "e">>)
  @@ ("pod" :> <<"p", "o", "d">>)
  @@ ("service" :> <<"s", "e", "r", "v", "i", "c", "e">>)
  @@ ("ingress" :> <<"i", "n", "g", "r", "e", "s", "s">>)
  @@ ("nodepool" :> <<"n", "o", "d", "e", "p", "o", "o", "l">>)
  @@ ("rifle" :> <<"r", "i", "f", "l", "e">>)
  @@ ("gun" :> <<"g", "u", "n">>)
  @@ ("weapon" :> <<"w", "e", "a", "p", "o", "n">>)
  @@ ("firearm" :> <<"f", "i", "r", "e", "a", "r", "m">>)
  @@ ("assault" :> <<"a", "s", "s", "a", "u", "l", "t">>)
  @@ ("military" :> <<"m", "i", "l", "i", "t", "a", "r", "y">>)
  @@ ("bullet" :> <<"b", "u", "l", "l", "e", "t">>)
  @@ ("ammunition" :> <<"a", "m", "m", "u", "n", "i", "t", "i", "o", "n">>)
  @@ ("shoot" :> <<"s", "h", "o", "o", "t">>)
  @@ ("trigger" :> <<"t", "r", "i", "g", "g", "e", "r">>)
  @@ ("barrel" :> <<"b", "a", "r", "r", "e", "l">>)
  @@ ("stock" :> <<"s", "t", "o", "c", "k">>)
  @@ ("caliber" :> <<"c", "a", "l", "i", "b", "e", "r">>)
  @@ ("aws" :> <<"a", "w", "s">>)
  @@ ("amazon" :> <<"a", "m", "a", "z", "o", "n">>)
  @@ ("eks" :> <<"e", "k", "s">>)
  @@ ("gcp" :> <<"g", "c", "p">>)
  @@ ("google" :> <<"g", "o", "o", "g", "l", "e">>)
  @@ ("gke" :> <<"g", "k", "e">>)
  @@ ("openshift" :> <<"o", "p", "e", "n", "s", "h", "i", "f", "t">>)
  @@ ("rancher" :> <<"r", "a", "n", "c", "h", "e", "r">>)
  @@ ("docker desktop" :> <<"d", "o", "c", "k", "e", "r", " ", "d", "e", "s", "k", "t", "o", "p">>)
  @@ ("minikube" :> <<"m", "i", "n", "i", "k", "u", "b", "e">>)
  @@ ("kind" :> <<"k", "i", "n", "d">>)
  @@ ("k3s" :> <<"k", "3", "s">>)
  @@ ("security vulnerability" :> <<"s", "e", "c", "u", "r", "i", "t", "y", " ", "v", "u", "l", "n", "e", "r", "a", "b", "i", "l", "i", "t", "y">>)
  @@ ("cve" :> <<"c", "v", "e">>)
  @@ ("exploit" :> <<"e", "x", "p", "l", "o", "i", "t">>)
  @@ ("breach" :> <<"b", "r", "e", "a", "c", "h">>)
  @@ ("attack" :> <<"a", "t", "t", "a", "c", "k">>)
  @@ ("malware" :> <<"m", "a", "l", "w", "a", "r", "e">>)
  @@ ("ransomware" :> <<"r", "a", "n", "s", "o", "m", "w", "a", "r", "e">>)
  @@ ("phishing" :> <<"p", "h", "i", "s", "h", "i", "n", "g">>)
  @@ ("zero day" :> <<"z", "e", "r", "o", " ", "d", "a", "y">>)
  @@ ("critical security" :> <<"c", "r", "i", "t", "i", "c", "a", "l", " ", "s", "e", "c", "u", "r", "i", "t", "y">>)
  @@ ("security patch" :> <<"s", "e", "c", "u", "r", "i", "t", "y", " ", "p", "a", "t", "c", "h">>)
  @@ ("hotfix" :> <<"h", "o", "t", "f", "i", "x">>)
  @@ ("urgent update" :> <<"u", "r", "g", "e", "n", "t", " ", "u", "p", "d", "a", "t", "e">>)
  @@ ("immediate action required" :> <<"i", "m", "m", "e", "d", "i", "a", "t", "e", " ", "a", "c", "t", "i", "o", "n", " ", "r", "e", "q", "u", "i", "r", "e", "d">>)
  @@ ("breaking change" :> <<"b", "r", "e", "a", "k", "i", "n", "g", " ", "c", "h", "a", "n", "g", "e">>)
  @@ ("deprecated" :> <<"d", "e", "p", "r", "e", "c", "a", "t", "e", "d">>)
  @@ ("end of life" :> <<"e", "n", "d", " ", "o", "f", " ", "l", "i", "f", "e">>)
  @@ ("eol" :> <<"e", "o", "l">>)
  @@ ("sunset" :> <<"s", "u", "n", "s", "e", "t">>)
  @@ ("service outage" :> <<"s", "e", "r", "v", "i", "c", "e", " ", "o", "u", "t", "a", "g", "e">>)
  @@ ("downtime" :> <<"d", "o", "w", "n", "t", "i", "m", "e">>)
  @@ ("incident" :> <<"i", "n", "c", "i", "d", "e", "n", "t">>)
  @@ ("degraded performance" :> <<"d", "e", "g", "r", "a", "d", "e", "d", " ", "p", "e", "r", "f", "o", "r", "m", "a", "n", "c", "e">>)
  @@ ("api changes" :> <<"a", "p", "i", " ", "c", "h", "a", "n", "g", "e", "s">>)
  @@ ("breaking api" :> <<"b", "r", "e", "a", "k", "i", "n", "g", " ", "a", "p", "i">>)
  @@ ("mandatory upgrade" :> <<"m", "a", "n", "d", "a", "t", "o", "r", "y", " ", "u", "p", "g", "r", "a", "d", "e">>)
  @@ ("microsoft announcement" :> <<"m", "i", "c", "r", "o", "s", "o", "f", "t", " ", "a", "n", "n", "o", "u", "n", "c", "e", "m", "e", "n", "t">>)
  @@ ("azure announcement" :> <<"a", "z", "u", "r", "e", " ", "a", "n", "n", "o", "u", "n", "c", "e", "m", "e", "n", "t">>)
  @@ ("urgent notice" :> <<"u", "r", "g", "e", "n", "t", " ", "n", "o", "t", "i", "c", "e">>)
  @@ ("action required" :> <<"a", "c", "t", "i", "o", "n", " ", "r", "e", "q", "u", "i", "r", "e", "d">>)
  @@ ("immediate attention" :> <<"i", "m", "m", "e", "d", "i", "a", "t", "e", " ", "a", "t", "t", "e", "n", "t", "i", "o", "n">>)
  @@ ("critical update" :> <<"c", "r", "i", "t", "i", "c", "a", "l", " ", "u", "p", "d", "a", "t", "e">>)
  @@ ("service retirement" :> <<"s", "e", "r", "v", "i", "c", "e", " ", "r", "e", "t", "i", "r", "e", "m", "e", "n", "t">>)
  @@ ("feature retirement" :> <<"f", "e", "a", "t", "u", "r", "e", " ", "r", "e", "t", "i", "r", "e", "m", "e", "n", "t">>)
  @@ ("good" :> <<"g", "o", "o", "d">>)
  @@ ("great" :> <<"g", "r", "e", "a", "t">>)
  @@ ("excellent" :> <<"e", "x", "c", "e", "l", "l", "e", "n", "t">>)
  @@ ("love" :> <<"l", "o", "v", "e">>)
  @@ ("awesome" :> <<"a", "w", "e", "s", "o", "m", "e">>)
  @@ ("fantastic" :> <<"f", "a", "n", "t", "a", "s", "t", "i", "c">>)
  @@ ("helpful" :> <<"h", "e", "l", "p", "f", "u", "l">>)
  @@ ("works" :> <<"w", "o", "r", "k", "s">>)
  @@ ("solved" :> <<"s", "o", "l", "v", "e", "d">>)
  @@ ("success" :> <<"s", "u", "c", "c", "e", "s", "s">>)
  @@ ("bad" :> <<"b", "a", "d">>)
  @@ ("terrible" :> <<"t", "e", "r", "r", "i", "b", "l", "e">>)
  @@ ("awful" :> <<"a", "w", "f", "u", "l">>)
  @@ ("hate" :> <<"h", "a", "t", "e">>)
  @@ ("broken" :> <<"b", "r", "o", "k", "e", "n">>)
  @@ ("error" :> <<"e", "r", "r", "o", "r">>)
  @@ ("fail" :> <<"f", "a", "i", "l">>)
  @@ ("problem" :> <<"p", "r", "o", "b", "l", "e", "m">>)
  @@ ("issue" :> <<"i", "s", "s", "u", "e">>)
  @@ ("bug" :> <<"b", "u", "g">>)
  @@ ("reddit" :> <<"r", "e", "d", "d", "i", "t">>)
  @@ ("stackoverflow" :> <<"s", "t", "a", "c", "k", "o", "v", "e", "r", "f", "l", "o", "w">>)
  @@ ("hackernews" :> <<"h", "a", "c", "k", "e", "r", "n", "e", "w", "s">>)
  @@ ("twitter" :> <<"t", "w", "i", "t", "t", "e", "r">>)
  @@ ("youtube" :> <<"y", "o", "u", "t", "u", "b", "e">>)
  @@ ("medium" :> <<"m", "e", "d", "i", "u", "m">>)
  @@ ("linkedin" :> <<"l", "i", "n", "k", "e", "d", "i", "n">>)
  @@ ("AKS cve" :> <<"A", "K", "S", " ", "c", "v", "e">>)
  @@ ("bad bug" :> <<"b", "a", "d", " ", "b", "u", "g">>)
  @@ ("AKS rifle" :> <<"A", "K", "S", " ", "r", "i", "f", "l", "e">>)
  @@ ("great gun" :> <<"g", "r", "e", "a", "t", " ", "g", "u", "n">>)
  @@ ("aks pod" :> <<"a", "k", "s", " ", "p", "o", "d">>)
  @@ ("it works" :> <<"i", "t", " ", "w", "o", "r", "k", "s">>)
  @@ ("root attack" :> <<"r", "o", "o", "t", " ", "a", "t", "t", "a", "c", "k">>)
  @@ ("" :> <<>>)
  @@ ("Ask HN attacker" :> <<"A", "s", "k", " ", "H", "N", " ", "a", "t", "t", "a", "c", "k", "e", "r">>)
  @@ ("key" :> <<"k", "e", "y">>)
  @@ ("AKS eol" :> <<"A", "K", "S", " ", "e", "o", "l">>)
  @@ ("az aks love" :> <<"a", "z", " ", "a", "k", "s", " ", "l", "o", "v", "e">>)
  @@ ("k8s hate" :> <<"k", "8", "s", " ", "h", "a", "t", "e">>)
  @@ ("AKS rifle attack" :> <<"A", "K", "S", " ", "r", "i", "f", "l", "e", " ", "a", "t", "t", "a", "c", "k">>)
  @@ ("AKS hotfix" :> <<"A", "K", "S", " ", "h", "o", "t", "f", "i", "x">>)
  @@ ("LinkedIn pulse search attempted: AKS" :> <<"L", "i", "n", "k", "e", "d", "I", "n", " ", "p", "u", "l", "s", "e", " ", "s", "e", "a", "r", "c", "h", " ", "a", "t", "t", "e", "m", "p", "t", "e", "d", ":", " ", "A", "K", "S">>)
  @@ ("Attempted to search LinkedIn pulse for 'AKS' but encountered connection issues. Manual review recommended." :> <<"A", "t", "t", "e", "m", "p", "t", "e", "d", " ", "t", "o", " ", "s", "e", "a", "r", "c", "h", " ", "L", "i", "n", "k", "e", "d", "I", "n", " ", "p", "u", "l", "s", "e", " ", "f", "o", "r", " ", "'", "A", "K", "S", "'", " ", "b", "u", "t", " ", "e", "n", "c", "o", "u", "n", "t", "e", "r", "e", "d", " ", "c", "o", "n", "n", "e", "c", "t", "i", "o", "n", " ", "i", "s", "s", "u", "e", "s", ".", " ", "M", "a", "n", "u", "a", "l", " ", "r", "e", "v", "i", "e", "w", " ", "r", "e", "c", "o", "m", "m", "e", "n", "d", "e", "d", ".">>)
  @@ ("LinkedIn posts search attempted: AKS" :> <<"L", "i", "n", "k", "e", "d", "I", "n", " ", "p", "o", "s", "t", "s", " ", "s", "e", "a", "r", "c", "h", " ", "a", "t", "t", "e", "m", "p", "t", "e", "d", ":", " ", "A", "K", "S">>)
  @@ ("Attempted to search LinkedIn posts for 'AKS' but encountered connection issues. Manual review recommended." :> <<"A", "t", "t", "e", "m", "p", "t", "e", "d", " ", "t", "o", " ", "s", "e", "a", "r", "c", "h", " ", "L", "i", "n", "k", "e", "d", "I", "n", " ", "p", "o", "s", "t", "s", " ", "f", "o", "r", " ", "'", "A", "K", "S", "'", " ", "b", "u", "t", " ", "e", "n", "c", "o", "u", "n", "t", "e", "r", "e", "d", " ", "c", "o", "n", "n", "e", "c", "t", "i", "o", "n", " ", "i", "s", "s", "u", "e", "s", ".", " ", "M", "a", "n", "u", "a", "l", " ", "r", "e", "v", "i", "e", "w", " ", "r", "e", "c", "o", "m", "m", "e", "n", "d", "e", "d", ".">>)
  @@ (" " :> <<" ">>)
  @@ (" (" :> <<" ", "(">>)
  @@ (")" :> <<")">>)
  @@ ("0" :> <<"0">>)
  @@ ("1" :> <<"1">>)
  @@ ("2" :> <<"2">>)
  @@ ("3" :> <<"3">>)
  @@ ("4" :> <<"4">>)
  @@ ("5" :> <<"5">>)
  @@ ("6" :> <<"6">>)
  @@ ("7" :> <<"7">>)
  @@ ("8" :> <<"8">>)
  @@ ("9" :> <<"9">>)
  @@ ("AKS" :> <<"A", "K", "S">>)
  @@ ("good good bad" :> <<"g", "o", "o", "d", " ", "g", "o", "o", "d", " ", "b", "a", "d">>)
  @@ ("bad bad good" :> <<"b", "a", "d", " ", "b", "a", "d", " ", "g", "o", "o", "d">>)
  @@ ("Great success" :> <<"G", "r", "e", "a", "t", " ", "s", "u", "c", "c", "e", "s", "s">>)
  @@ ("AKS on Microsoft Azure" :> <<"A", "K", "S", " ", "o", "n", " ", "M", "i", "c", "r", "o", "s", "o", "f", "t", " ", "A", "z", "u", "r", "e">>)
  @@ ("Migrating to EKS" :> <<"M", "i", "g", "r", "a", "t", "i", "n", "g", " ", "t", "o", " ", "E", "K", "S">>)
  @@ ("azure kubernetes cluster" :> <<"a", "z", "u", "r", "e", " ", "k", "u", "b", "e", "r", "n", "e", "t", "e", "s", " ", "c", "l", "u", "s", "t", "e", "r">>)
  @@ ("kind bug" :> <<"k", "i", "n", "d", " ", "b", "u", "g">>)
  @@ ("good bad" :> <<"g", "o", "o", "d", " ", "b", "a", "d">>)

UpperToLower ==
  [c \in {"A", "B", "C", "D", "E", "F", "G", "H", "I", "J", "K", "L", "M",
          "N", "O", "P", "Q", "R", "S", "T", "U", "V", "W", "X", "Y", "Z"} |->
     CASE c = "A" -> "a" [] c = "B" -> "b" [] c = "C" -> "c" [] c = "D" -> "d"
       [] c = "E" -> "e" [] c = "F" -> "f" [] c = "G" -> "g" [] c = "H" -> "h"
       [] c = "I" -> "i" [] c = "J" -> "j" [] c = "K" -> "k" [] c = "L" -> "l"
       [] c = "M" -> "m" [] c = "N" -> "n" [] c = "O" -> "o" [] c = "P" -> "p"
       [] c = "Q" -> "q" [] c = "R" -> "r" [] c = "S" -> "s" [] c = "T" -> "t"
       [] c = "U" -> "u" [] c = "V" -> "v" [] c = "W" -> "w" [] c = "X" -> "x"
       [] c = "Y" -> "y" [] c = "Z" -> "z"]

\* strings.ToLower on a character sequence
ToLower(s) ==
  [i \in 1..Len(s) |-> IF s[i] \in DOMAIN UpperToLower THEN UpperToLower[s[i]] ELSE s[i]]

\* strings.Contains(s, substr), both character sequences
Contains(s, substr) ==
  \E i \in 1..(Len(s) - Len(substr) + 1) :
     \A j \in 1..Len(substr) : s[i + j - 1] = substr[j]

\* the elements of a sequence
Range(seq) == {seq[i] : i \in 1..Len(seq)}

(***************************************************************************)
(* Relevance filter (service.go, isRelevantMention).                       *)
(***************************************************************************)
azureIndicators ==
  <<"aks", "azure kubernetes service", "azure kubernetes", "azure container service",
    "microsoft azure", "azurecr.io", "azure cli", "az aks", "azure devops",
    "azure container registry", "azure container apps", "kaito", "kubefleet",
    "azure kubernetes fleet", "azure kubernetes fleet manager">>

kubernetesIndicators ==
  <<"kubernetes", "k8s", "container", "cluster", "deployment", "helm",
    "kubectl", "namespace", "pod", "service", "ingress", "nodepool">>

negativeIndicators ==
  <<"rifle", "gun", "weapon", "firearm", "assault", "military", "bullet",
    "ammunition", "shoot", "trigger", "barrel", "stock", "caliber",
    "aws", "amazon", "eks", "gcp", "google", "gke", "openshift",
    "rancher", "docker desktop", "minikube", "kind", "k3s">>

\* number of the terms of list that occur in content (each term counts once)
CountContained(content, list) ==
  Cardinality({i \in 1..Len(list) : Contains(content, Chars[list[i]])})

\* some term of list occurs in content
ContainsAny(content, list) ==
  \E i \in 1..Len(list) : Contains(content, Chars[list[i]])

\* content := strings.ToLower(mention.Content + " " + mention.Title)
mentionText(mention) ==
  ToLower(Chars[mention.Content] \o Chars[" "] \o Chars[mention.Title])

\* fault for C13: the primary indicators looked at before the negative ones
isRelevantMention_PositiveFirst(mention) ==
  LET content == mentionText(mention)
      azureScore == CountContained(content, azureIndicators)
      hasSearchTerm == \/ Contains(content, Chars["aks"])
                       \/ Contains(content, Chars["azure kubernetes"])
      hasK8sContext == ContainsAny(content, kubernetesIndicators)
  IN  IF azureScore > 0 THEN TRUE
      ELSE IF ContainsAny(content, negativeIndicators) THEN FALSE
      ELSE IF mention.Source \in {"reddit", "stackoverflow", "hackernews"}
           THEN hasSearchTerm /\ hasK8sContext
      ELSE FALSE

\* fault for C16: the primary indicators accepted from the technical sources alone
isRelevantMention_TechnicalOnly(mention) ==
  LET content == mentionText(mention)
      azureScore == CountContained(content, azureIndicators)
  IN  IF ContainsAny(content, negativeIndicators) THEN FALSE
      ELSE /\ azureScore > 0
           /\ mention.Source \in {"reddit", "stackoverflow", "hackernews"}

\* Service.isRelevantMention
isRelevantMention(mention) ==
  LET content == mentionText(mention)
      azureScore == CountContained(content, azureIndicators)
      hasSearchTerm == \/ Contains(content, Chars["aks"])
                       \/ Contains(content, Chars["azure kubernetes"])
      hasK8sContext == ContainsAny(content, kubernetesIndicators)
  IN  IF ContainsAny(content, negativeIndicators) THEN FALSE
      ELSE IF azureScore > 0 THEN TRUE
      ELSE IF mention.Source \in {"reddit", "stackoverflow", "hackernews"}
           THEN hasSearchTerm /\ hasK8sContext
      ELSE FALSE

filterByContext(mentions) == SelectSeq(mentions, isRelevantMention)

(***************************************************************************)
(* Urgency classifier (service.go, isUrgentMention).                       *)
(***************************************************************************)
securityKeywords ==
  <<"security vulnerability", "cve", "exploit", "breach", "attack",
    "malware", "ransomware", "phishing", "zero day", "critical security",
    "security patch", "hotfix", "urgent update", "immediate action required">>

breakingKeywords ==
  <<"breaking change", "deprecated", "end of life", "eol", "sunset",
    "service outage", "downtime", "incident", "degraded performance",
    "api changes", "breaking api", "mandatory upgrade">>

highImpactKeywords ==
  <<"microsoft announcement", "azure announcement", "urgent notice",
    "action required", "immediate attention", "critical update",
    "service retirement", "feature retirement">>

isUrgentMention(mention) ==
  LET content == mentionText(mention)
  IN  \/ ContainsAny(content, securityKeywords)
      \/ ContainsAny(content, breakingKeywords)
      \/ ContainsAny(content, highImpactKeywords)

filterUrgentMentions(mentions) == SelectSeq(mentions, isUrgentMention)

(***************************************************************************)
(* Sentiment scorer (service.go, basicSentimentAnalysis).                  *)
(***************************************************************************)
positiveWords ==
  <<"good", "great", "excellent", "love", "awesome", "fantastic", "helpful",
    "works", "solved", "success">>

negativeWords ==
  <<"bad", "terrible", "awful", "hate", "broken", "error", "fail", "problem",
    "issue", "bug">>

\* fault for C17: a tie of the two counts scored as positive
basicSentimentAnalysis_TieIsPositive(text) ==
  LET content == ToLower(Chars[text])
      positiveCount == CountContained(content, positiveWords)
      negativeCount == CountContained(content, negativeWords)
  IN  IF positiveCount >= negativeCount THEN "positive"
      ELSE "negative"

\* Service.basicSentimentAnalysis
basicSentimentAnalysis(text) ==
  LET content == ToLower(Chars[text])
      positiveCount == CountContained(content, positiveWords)
      negativeCount == CountContained(content, negativeWords)
  IN  IF positiveCount > negativeCount THEN "positive"
      ELSE IF negativeCount > positiveCount THEN "negative"
      ELSE "neutral"

\* fault for C34: a scorer that also stamps the mention with the time of the analysis
analyzeSentiment_Stamped(mentions) ==
  [i \in 1..Len(mentions) |->
     [mentions[i] EXCEPT !.Sentiment = basicSentimentAnalysis(mentions[i].Content),
                         !.CreatedAt = 0]]

\* Service.analyzeSentiment: the label of every mention, from its content
analyzeSentiment(mentions) ==
  [i \in 1..Len(mentions) |->
     [mentions[i] EXCEPT !.Sentiment = basicSentimentAnalysis(mentions[i].Content)]]

\* fault for C24: context filtering applied whatever the configuration says
filterAndAnalyze_AlwaysFilter(mentions, cfg) ==
  LET filtered == filterByContext(mentions)
  IN  IF cfg.EnableSentimentAnalysis THEN analyzeSentiment(filtered) ELSE filtered

\* RunMonitoring from the collected mentions to the batch it stores: context
\* filtering, then sentiment analysis, each if the configuration enables it
filterAndAnalyze(mentions, cfg) ==
  LET filtered == IF cfg.EnableContextFiltering
                  THEN filterByContext(mentions) ELSE mentions
  IN  IF cfg.EnableSentimentAnalysis THEN analyzeSentiment(filtered) ELSE filtered

(***************************************************************************)
(* Configuration (config.Config) and the registered source adapters.       *)
(***************************************************************************)
\* the adapters in the order initializeSources registers them
AllSources ==
  <<"reddit", "stackoverflow", "hackernews", "twitter", "youtube", "medium", "linkedin">>

\* the runs are modelled over NumSources adapters that follow one another in
\* the registration order: the selections of such adapters
SourceSelections ==
  {SubSeq(AllSources, first, first + NumSources - 1) :
     first \in 1..(Len(AllSources) - NumSources + 1)}

\* configurations that pass Config.validate; a credential is "" or set
Configs ==
  [ReportSchedule : {"daily", "weekly"},
   EnableContextFiltering : BOOLEAN,
   EnableSentimentAnalysis : BOOLEAN,
   RedditClientID : {"", "id"},
   RedditClientSecret : {"secret"},
   TwitterBearerToken : {"", "token"},
   YouTubeAPIKey : {"", "key"},
   Keywords : {<<"AKS">>}]

\* Source.IsEnabled of each adapter
IsEnabled(src, cfg) ==
  CASE src = "reddit" -> cfg.RedditClientID # "" /\ cfg.RedditClientSecret # ""
    [] src = "stackoverflow" -> TRUE
    [] src = "hackernews" -> TRUE
    [] src = "twitter" -> cfg.TwitterBearerToken # ""
    [] src = "youtube" -> cfg.YouTubeAPIKey # ""
    [] src = "medium" -> TRUE
    [] src = "linkedin" -> FALSE

\* a models.Mention as an adapter builds it (Sentiment unset)
NewMention(id, source, title, content, createdAt) ==
  [ID |-> id, Source |-> source, Title |-> title, Content |-> content,
   CreatedAt |-> createdAt, Sentiment |-> ""]

\* the platform items each adapter can find, in the order it finds them
PlatformItems(src) ==
  CASE src = "reddit" ->
         <<NewMention("reddit_1", "reddit", "AKS cve", "bad bug", 1),
           NewMention("reddit_2", "reddit", "AKS rifle", "great gun", 2)>>
    [] src = "stackoverflow" ->
         <<NewMention("stackoverflow_1", "stackoverflow", "aks pod", "it works", 1),
           NewMention("stackoverflow_2", "stackoverflow", "root attack", "", 2)>>
    [] src = "hackernews" ->
         <<NewMention("hackernews_1", "hackernews", "Ask HN attacker", "key", 1),
           NewMention("hackernews_2", "hackernews", "AKS eol", "sunset", 2)>>
    [] src = "twitter" ->
         <<NewMention("twitter_1", "twitter", "", "az aks love", 1),
           NewMention("twitter_2", "twitter", "", "k8s hate", 2)>>
    [] src = "youtube" ->
         <<NewMention("youtube_1", "youtube", "AKS rifle attack", "", 1),
           NewMention("youtube_2", "youtube", "kaito", "good", 2)>>
    [] src = "medium" ->
         <<NewMention("medium_1", "medium", "AKS hotfix", "error", 1),
           NewMention("medium_2", "medium", "helm", "", 2)>>
    [] src = "linkedin" ->
         <<NewMention("linkedin_pulse_AKS_1", "linkedin",
                      "LinkedIn pulse search attempted: AKS",
                      "Attempted to search LinkedIn pulse for 'AKS' but encountered connection issues. Manual review recommended.", 1),
           NewMention("linkedin_posts_AKS_1", "linkedin",
                      "LinkedIn posts search attempted: AKS",
                      "Attempted to search LinkedIn posts for 'AKS' but encountered connection issues. Manual review recommended.", 1)>>

\* the lists of the first k items, for k in ks
Prefixes(items, ks) == {SubSeq(items, 1, k) : k \in ks}

\* error values
NoErr == "nil"
ErrCtx == "context deadline exceeded"

\* a return of FetchMentions: the slice, the error, and whether the call
\* touched the network
FetchResult(mentions, err, network) ==
  [mentions |-> mentions, err |-> err, network |-> network]

\* what FetchMentions of adapter src can return; ctxDone tells whether the
\* run's context has expired by the time it returns
FetchOutcomes(src, cfg, ctxDone) ==
  LET items == PlatformItems(src)
      lists == Prefixes(items, {0, Len(items)})
      ok    == {FetchResult(l, NoErr, TRUE) : l \in lists}
      off   == {FetchResult(<<>>, NoErr, FALSE)}
  IN  CASE src = "reddit" ->
             IF ~IsEnabled(src, cfg) THEN off
             ELSE ok \cup {FetchResult(<<>>, "reddit authentication failed", TRUE)}
        [] src = "stackoverflow" -> ok
        [] src = "hackernews" ->
             ok \cup {FetchResult(<<>>, "failed to get recent items", TRUE)}
                \cup (IF ctxDone
                    THEN {FetchResult(l, ErrCtx, TRUE) : l \in Prefixes(items, {1})}
                    ELSE {})
        [] src = "twitter" -> IF ~IsEnabled(src, cfg) THEN off ELSE ok
        [] src = "youtube" -> IF ~IsEnabled(src, cfg) THEN off ELSE ok
        [] src = "medium" -> ok
        [] src = "linkedin" ->
             {FetchResult(l, NoErr, TRUE) : l \in Prefixes(items, {Len(items)})}

(***************************************************************************)
(* Report builder (service.go, generateReport / getTopSources) and the     *)
(* artifacts handed to the collaborators.                                  *)
(***************************************************************************)
\* sourceCount: a Go map[string]int counting the mentions by Source
CountBySource(mentions) ==
  [k \in {mentions[i].Source : i \in 1..Len(mentions)} |->
     Cardinality({i \in 1..Len(mentions) : mentions[i].Source = k})]

\* fault for C11: a sentiment count that leaves out the mentions without a label
CountBySentiment_SkipUnset(mentions) ==
  [k \in {mentions[i].Sentiment : i \in 1..Len(mentions)} \ {""} |->
     Cardinality({i \in 1..Len(mentions) : mentions[i].Sentiment = k})]

\* sentimentCount: a Go map[string]int counting the mentions by Sentiment
CountBySentiment(mentions) ==
  [k \in {mentions[i].Sentiment : i \in 1..Len(mentions)} |->
     Cardinality({i \in 1..Len(mentions) : mentions[i].Sentiment = k})]

RECURSIVE KeyOrders(_)
\* the sequences that hold every element of the set keys exactly once
KeyOrders(keys) ==
  IF keys = {} THEN {<<>>}
  ELSE UNION {{<<k>> \o rest : rest \in KeyOrders(keys \ {k})} : k \in keys}

\* the orders in which a range loop can visit the keys of a Go map
MapOrders(m) == KeyOrders(DOMAIN m)

Digits == <<"0", "1", "2", "3", "4", "5", "6", "7", "8", "9">>

RECURSIVE Itoa(_)
\* the %d verb of fmt.Sprintf, for a natural number
Itoa(n) ==
  IF n < 10 THEN Chars[Digits[n + 1]]
  ELSE Itoa(n \div 10) \o Chars[Digits[(n % 10) + 1]]

Swap(scores, i, j) == [scores EXCEPT ![i] = scores[j], ![j] = scores[i]]

RECURSIVE SortInner_Ascending(_, _, _)
\* fault for C18: the exchange made when the later count is the smaller one
SortInner_Ascending(scores, i, j) ==
  IF j > Len(scores) THEN scores
  ELSE SortInner_Ascending(IF scores[j].count < scores[i].count
                           THEN Swap(scores, i, j) ELSE scores,
                           i, j + 1)

RECURSIVE SortInner(_, _, _)
\* the inner loop of getTopSources: for j := i + 1; j < len(scores); j++
SortInner(scores, i, j) ==
  IF j > Len(scores) THEN scores
  ELSE SortInner(IF scores[j].count > scores[i].count THEN Swap(scores, i, j) ELSE scores,
                 i, j + 1)

RECURSIVE SortOuter(_, _)
\* the outer loop of getTopSources: for i := 0; i < len(scores)-1; i++
SortOuter(scores, i) ==
  IF i >= Len(scores) THEN scores
  ELSE SortOuter(SortInner(scores, i, i + 1), i + 1)

\* getTopSources, with order the order in which the map is ranged over
getTopSources(sourceCount, order) ==
  LET scores == [i \in 1..Len(order) |-> [source |-> order[i], count |-> sourceCount[order[i]]]]
      sorted == SortOuter(scores, 1)
      top    == IF Len(sorted) > 5 THEN 5 ELSE Len(sorted)
  IN  [i \in 1..top |->
         Chars[sorted[i].source] \o Chars[" ("] \o Itoa(sorted[i].count) \o Chars[")"]]

\* fault for C12: a scheduled report without the sentiment breakdown
generateReport_NoSentiment(mentions, cfg, order) ==
  LET sourceCount == CountBySource(mentions)
  IN  [Period |-> cfg.ReportSchedule,
       TotalMentions |-> Len(mentions),
       Mentions |-> mentions,
       Summary |-> ("sources" :> sourceCount)
                @@ ("top_sources" :> getTopSources(sourceCount, order))]

\* fault for C32: a report that lists the mentions newest position first
generateReport_Reordered(mentions, cfg, order) ==
  LET sourceCount == CountBySource(mentions)
      sentimentCount == CountBySentiment(mentions)
  IN  [Period |-> cfg.ReportSchedule,
       TotalMentions |-> Len(mentions),
       Mentions |-> [i \in 1..Len(mentions) |-> mentions[Len(mentions) + 1 - i]],
       Summary |-> ("sources" :> sourceCount)
                @@ ("sentiment" :> sentimentCount)
                @@ ("top_sources" :> getTopSources(sourceCount, order))]

\* fault for C33: a report builder that scores the title of every mention
\* and replaces the label the mention carries
generateReport_Rescored(mentions, cfg, order) ==
  LET rescored == [i \in 1..Len(mentions) |->
                     [mentions[i] EXCEPT !.Sentiment = basicSentimentAnalysis(mentions[i].Title)]]
      sourceCount == CountBySource(rescored)
      sentimentCount == CountBySentiment(rescored)
  IN  [Period |-> cfg.ReportSchedule,
       TotalMentions |-> Len(rescored),
       Mentions |-> rescored,
       Summary |-> ("sources" :> sourceCount)
                @@ ("sentiment" :> sentimentCount)
                @@ ("top_sources" :> getTopSources(sourceCount, order))]

\* Service.generateReport, with order the order in which sourceCount is ranged over
\* fault for C39: a report built from the mentions that pass the context
\* filter, whatever the configuration
generateReport_Refiltered(mentions, cfg, order) ==
  LET shown == filterByContext(mentions)
      sourceCount == CountBySource(shown)
      sentimentCount == CountBySentiment(shown)
  IN  [Period |-> cfg.ReportSchedule,
       TotalMentions |-> Len(shown),
       Mentions |-> shown,
       Summary |-> ("sources" :> sourceCount)
                @@ ("sentiment" :> sentimentCount)
                @@ ("top_sources" :> getTopSources(sourceCount, order))]

generateReport(mentions, cfg, order) ==
  LET sourceCount == CountBySource(mentions)
      sentimentCount == CountBySentiment(mentions)
  IN  [Period |-> cfg.ReportSchedule,
       TotalMentions |-> Len(mentions),
       Mentions |-> mentions,
       Summary |-> ("sources" :> sourceCount)
                @@ ("sentiment" :> sentimentCount)
                @@ ("top_sources" :> getTopSources(sourceCount, order))]

\* fault for C9: an urgent notification labelled like the scheduled report
urgentReport_ScheduleLabel(mentions) ==
  [Period |-> "weekly",
   TotalMentions |-> Len(mentions),
   Mentions |-> mentions,
   Summary |-> ("title" :> "URGENT AKS Mentions Alert")
            @@ ("description" :> <<"Found %d urgent AKS-related mentions requiring immediate attention", Len(mentions)>>)]

\* the report sendUrgentNotification builds
urgentReport(mentions) ==
  [Period |-> "4-hour urgent check",
   TotalMentions |-> Len(mentions),
   Mentions |-> mentions,
   Summary |-> ("title" :> "URGENT AKS Mentions Alert")
            @@ ("description" :> <<"Found %d urgent AKS-related mentions requiring immediate attention", Len(mentions)>>)
            @@ ("type" :> "urgent")]

\* json.Marshal of a mention slice: the array of objects keyed by the json tags
jsonMarshal(mentions) ==
  [i \in 1..Len(mentions) |->
     [id |-> mentions[i].ID, source |-> mentions[i].Source,
      title |-> mentions[i].Title, content |-> mentions[i].Content,
      created_at |-> mentions[i].CreatedAt, sentiment |-> mentions[i].Sentiment]]

\* fault for C21: counters that are not reset, so that the counts of a run are
\* added to those of the runs before it
updatedMetrics_Merge(old, mentions, errorCount, now) ==
  LET bySource == CountBySource(mentions)
      bySentiment == CountBySentiment(mentions)
      Merged(m, n) ==
        [k \in DOMAIN m \cup DOMAIN n |->
           (IF k \in DOMAIN m THEN m[k] ELSE 0) + (IF k \in DOMAIN n THEN n[k] ELSE 0)]
  IN  [TotalMentions |-> Len(mentions),
       LastRun |-> now,
       ErrorCount |-> errorCount,
       SourceMetrics |-> Merged(old.SourceMetrics, bySource),
       SentimentBreakdown |-> Merged(old.SentimentBreakdown, bySentiment)]

\* the Run Metrics after updateMetrics(mentions, _, errorCount) at time now,
\* old being the Run Metrics before it
updatedMetrics(old, mentions, errorCount, now) ==
  [TotalMentions |-> Len(mentions),
   LastRun |-> now,
   ErrorCount |-> errorCount,
   SourceMetrics |-> CountBySource(mentions),
   SentimentBreakdown |-> CountBySentiment(mentions)]

\* fault for C20: the fallback window without its floor of 24 hours
fullSearchWindow_NoFloor(cfg, hoursSinceLastRun) ==
  CASE cfg.ReportSchedule = "daily" -> 24
    [] cfg.ReportSchedule = "weekly" -> 7 * 24
    [] OTHER -> hoursSinceLastRun

\* the search window of a full run, in hours
fullSearchWindow(cfg, hoursSinceLastRun) ==
  CASE cfg.ReportSchedule = "daily" -> 24
    [] cfg.ReportSchedule = "weekly" -> 7 * 24
    [] OTHER -> IF hoursSinceLastRun < 24 THEN 24 ELSE hoursSinceLastRun

(***************************************************************************)
(* State of the service and of the run in progress.                        *)
(***************************************************************************)
VARIABLES
  config,          \* Service.config
  sources,         \* Service.sources: the names of the registered adapters
  metrics,         \* Service.metrics
  run,             \* the entry point executing: "none", "full" or "urgent"
  pc,              \* position of the run's main goroutine
  workers,         \* per adapter: the goroutine calling FetchMentions
  mentionsChan,    \* buffered channel of mention slices
  errorsChan,      \* buffered channel of errors
  mentionsClosed,  \* close(mentionsChan) has happened
  errorsClosed,    \* close(errorsChan) has happened
  ctxDone,         \* the context of the run has passed its deadline
  overdue,         \* the deadline and any bounded overhead after it have passed
  searchWindow,    \* the lookback window passed to the adapters, in hours
  allMentions,     \* local allMentions of the run
  errorCount,      \* local errorCount of RunMonitoring
  urgentMentions,  \* local urgentMentions of RunUrgentCheck
  storeCalls,      \* the calls of storage.Store made by the run, with their answers
  sendCalls,       \* the calls of notificationService.SendReport made by the run
  result,          \* the value the run returned ("running" until it returns)
  arg,             \* the argument of a function evaluated on its own
  rets,            \* the values such evaluations returned, oldest first
  mu,              \* Service.mu, the sync.RWMutex guarding Service.metrics
  calls            \* the calls of updateMetrics and GetMetrics in progress

vars ==
  <<config, sources, metrics, run, pc, workers, mentionsChan, errorsChan,
    mentionsClosed, errorsClosed, ctxDone, overdue, searchWindow, allMentions,
    errorCount, urgentMentions, storeCalls, sendCalls, result, arg, rets, mu, calls>>

\* the state of the run, without the metrics and their lock
runVars ==
  <<config, sources, run, pc, workers, mentionsChan, errorsChan,
    mentionsClosed, errorsClosed, ctxDone, overdue, searchWindow, allMentions,
    errorCount, urgentMentions, storeCalls, sendCalls, result>>

\* the state of the service and of its run, without arg and rets
serviceVars == <<runVars, metrics, mu, calls>>

\* a sync.RWMutex: whether a writer holds it, and how many readers do
Unlocked == [writer |-> FALSE, readers |-> 0]

Workers == 1..NumSources

\* a worker goroutine that has not returned from FetchMentions yet
Running ==
  [state |-> "running", result |-> FetchResult(<<>>, NoErr, FALSE), late |-> FALSE,
   since |-> 0]

AnyRunning == \E w \in Workers : workers[w].state = "running"
AllDone == \A w \in Workers : workers[w].state = "done"

\* the service with no run in progress: built by NewService from one of
\* configs, the adapters registered, and the metrics one of metricsValues
ServiceIdle(configs, metricsValues) ==
  /\ sources \in SourceSelections
  /\ config \in configs
  /\ "reddit" \notin Range(sources) => config.RedditClientID = ""
  /\ "twitter" \notin Range(sources) => config.TwitterBearerToken = ""
  /\ "youtube" \notin Range(sources) => config.YouTubeAPIKey = ""
  /\ metrics \in metricsValues
  /\ mu = Unlocked
  /\ run = "none"
  /\ pc = "idle"
  /\ workers = [w \in Workers |-> [state |-> "idle", result |-> FetchResult(<<>>, NoErr, FALSE),
                                    late |-> FALSE, since |-> 0]]
  /\ mentionsChan = <<>>
  /\ errorsChan = <<>>
  /\ mentionsClosed = FALSE
  /\ errorsClosed = FALSE
  /\ ctxDone = FALSE
  /\ overdue = FALSE
  /\ searchWindow = 0
  /\ allMentions = <<>>
  /\ errorCount = 0
  /\ urgentMentions = <<>>
  /\ storeCalls = <<>>
  /\ sendCalls = <<>>
  /\ result = NoErr

\* the Run Metrics as NewService builds them
ZeroMetrics ==
  [TotalMentions |-> 0, LastRun |-> 0, ErrorCount |-> 0,
   SourceMetrics |-> <<>>, SentimentBreakdown |-> <<>>]

\* the service between runs, with metrics.LastRun one of lastRuns: zero as
\* NewService leaves it, or the time of an earlier run that found nothing
ServiceBetweenRuns(configs, lastRuns) ==
  ServiceIdle(configs, {[ZeroMetrics EXCEPT !.LastRun = t] : t \in lastRuns})

\* NewService(cfg, ...) for cfg among configs: no run has happened
NewService(configs) == ServiceBetweenRuns(configs, {0})

\* the service constructed from a configuration that Load accepts
InitService == NewService(Configs)

\* the service as constructed; no function is evaluated on its own
Init ==
  /\ InitService
  /\ arg = <<>>
  /\ rets = <<>>
  /\ calls = <<>>

\* the common start of both entry points, one invocation per behaviour: context with deadline, channels,
\* one goroutine per registered source calling FetchMentions, and the
\* goroutine that closes the channels
StartRun(kind, window) ==
  /\ pc = "idle"
  /\ run' = kind
  /\ pc' = "collect"
  /\ workers' = [w \in Workers |-> [Running EXCEPT !.since = window]]
  /\ mentionsChan' = <<>>
  /\ errorsChan' = <<>>
  /\ mentionsClosed' = FALSE
  /\ errorsClosed' = FALSE
  /\ ctxDone' = FALSE
  /\ overdue' = FALSE
  /\ searchWindow' = window
  /\ allMentions' = <<>>
  /\ errorCount' = 0
  /\ urgentMentions' = <<>>
  /\ storeCalls' = <<>>
  /\ sendCalls' = <<>>
  /\ result' = "running"
  /\ UNCHANGED <<arg, rets, mu, calls, config, sources, metrics>>

\* the hours that can have passed since Service.metrics.LastRun when a run starts
ElapsedHours == {1, 30}

\* time.Since(s.getLastRunTime()) in hours, elapsed hours after metrics.LastRun:
\* a zero LastRun stands for 24 hours ago
timeSinceLastRun(m, elapsed) == IF m.LastRun = 0 THEN 24 ELSE elapsed

\* RunMonitoring invoked elapsed hours after metrics.LastRun
RunMonitoringAt(elapsed) ==
  StartRun("full", fullSearchWindow(config, timeSinceLastRun(metrics, elapsed)))

StartRunMonitoring == \E elapsed \in ElapsedHours : RunMonitoringAt(elapsed)

StartRunUrgentCheck == StartRun("urgent", 4)

\* the deadline of context.WithTimeout passes while adapters are at work
DeadlineExpires ==
  /\ AnyRunning
  /\ ~ctxDone
  /\ ctxDone' = TRUE
  /\ UNCHANGED <<arg, rets, mu, calls, config, sources, metrics, run, pc, workers, mentionsChan, errorsChan,
                 mentionsClosed, errorsClosed, overdue, searchWindow, allMentions,
                 errorCount, urgentMentions, storeCalls, sendCalls, result>>

\* more time passes than any bounded overhead after the deadline, while
\* some adapter has still not returned
OverheadElapses ==
  /\ AnyRunning
  /\ ctxDone
  /\ ~overdue
  /\ overdue' = TRUE
  /\ UNCHANGED <<arg, rets, mu, calls, config, sources, metrics, run, pc, workers, mentionsChan, errorsChan,
                 mentionsClosed, errorsClosed, ctxDone, searchWindow, allMentions,
                 errorCount, urgentMentions, storeCalls, sendCalls, result>>

\* the body of a worker goroutine from the return of FetchMentions on:
\* an error goes to errorsChan, a slice to mentionsChan, then wg.Done
WorkerSend(w, res) ==
  /\ workers' = [workers EXCEPT ![w] = [state |-> "done", result |-> res, late |-> ctxDone,
                                         since |-> workers[w].since]]
  /\ IF res.err # NoErr
     THEN /\ errorsChan' = Append(errorsChan, res.err)
          /\ UNCHANGED mentionsChan
     ELSE /\ mentionsChan' = Append(mentionsChan, res.mentions)
          /\ UNCHANGED errorsChan

WorkerReturn(w) ==
  /\ run # "none"
  /\ workers[w].state = "running"
  /\ \E res \in FetchOutcomes(sources[w], config, ctxDone) : WorkerSend(w, res)
  /\ UNCHANGED <<arg, rets, mu, calls, config, sources, metrics, run, pc, mentionsClosed, errorsClosed,
                 ctxDone, overdue, searchWindow, allMentions, errorCount,
                 urgentMentions, storeCalls, sendCalls, result>>

\* fault for C37: a closing goroutine that does not wait for the workers once
\* the deadline has passed
CloseChannels_OnDeadline ==
  /\ run # "none"
  /\ AllDone \/ ctxDone
  /\ ~mentionsClosed
  /\ mentionsClosed' = TRUE
  /\ errorsClosed' = TRUE
  /\ UNCHANGED <<arg, rets, mu, calls, config, sources, metrics, run, pc, workers, mentionsChan, errorsChan,
                 ctxDone, overdue, searchWindow, allMentions,
                 errorCount, urgentMentions, storeCalls, sendCalls, result>>

\* fault for C38: a closing goroutine that closes mentionsChan only
CloseChannels_MentionsOnly ==
  /\ run # "none"
  /\ AllDone
  /\ ~mentionsClosed
  /\ mentionsClosed' = TRUE
  /\ UNCHANGED <<arg, rets, mu, calls, config, sources, metrics, run, pc, workers, mentionsChan, errorsChan,
                 errorsClosed, ctxDone, overdue, searchWindow, allMentions,
                 errorCount, urgentMentions, storeCalls, sendCalls, result>>

\* the closing goroutine: wg.Wait(); close(mentionsChan); close(errorsChan)
CloseChannels ==
  /\ run # "none"
  /\ AllDone
  /\ ~mentionsClosed
  /\ mentionsClosed' = TRUE
  /\ errorsClosed' = TRUE
  /\ UNCHANGED <<arg, rets, mu, calls, config, sources, metrics, run, pc, workers, mentionsChan, errorsChan,
                 ctxDone, overdue, searchWindow, allMentions,
                 errorCount, urgentMentions, storeCalls, sendCalls, result>>

\* fault for C4: a receive that replaces the merged list instead of appending
Collect_Overwrite ==
  /\ pc = "collect"
  /\ mentionsChan # <<>>
  /\ allMentions' = Head(mentionsChan)
  /\ mentionsChan' = Tail(mentionsChan)
  /\ UNCHANGED <<arg, rets, mu, calls, config, sources, metrics, run, pc, workers, errorsChan,
                 mentionsClosed, errorsClosed, ctxDone, overdue, searchWindow,
                 errorCount, urgentMentions, storeCalls, sendCalls, result>>

\* for mentions := range mentionsChan: one receive
Collect ==
  /\ pc = "collect"
  /\ mentionsChan # <<>>
  /\ allMentions' = allMentions \o Head(mentionsChan)
  /\ mentionsChan' = Tail(mentionsChan)
  /\ UNCHANGED <<arg, rets, mu, calls, config, sources, metrics, run, pc, workers, errorsChan,
                 mentionsClosed, errorsClosed, ctxDone, overdue, searchWindow,
                 errorCount, urgentMentions, storeCalls, sendCalls, result>>

\* the range loop over mentionsChan ends: the channel is closed and drained
CollectDone ==
  /\ pc = "collect"
  /\ mentionsChan = <<>>
  /\ mentionsClosed
  /\ pc' = IF run = "full" THEN "countErrors" ELSE "filterUrgent"
  /\ UNCHANGED <<arg, rets, mu, calls, config, sources, metrics, run, workers, mentionsChan, errorsChan,
                 mentionsClosed, errorsClosed, ctxDone, overdue, searchWindow,
                 allMentions, errorCount, urgentMentions, storeCalls, sendCalls,
                 result>>

\* for range errorsChan: one receive
CountError ==
  /\ pc = "countErrors"
  /\ errorsChan # <<>>
  /\ errorCount' = errorCount + 1
  /\ errorsChan' = Tail(errorsChan)
  /\ UNCHANGED <<arg, rets, mu, calls, config, sources, metrics, run, pc, workers, mentionsChan,
                 mentionsClosed, errorsClosed, ctxDone, overdue, searchWindow,
                 allMentions, urgentMentions, storeCalls, sendCalls, result>>

\* the range loop over errorsChan ends
CountErrorsDone ==
  /\ pc = "countErrors"
  /\ errorsChan = <<>>
  /\ errorsClosed
  /\ pc' = "process"
  /\ UNCHANGED <<arg, rets, mu, calls, config, sources, metrics, run, workers, mentionsChan, errorsChan,
                 mentionsClosed, errorsClosed, ctxDone, overdue, searchWindow,
                 allMentions, errorCount, urgentMentions, storeCalls, sendCalls,
                 result>>

\* RunMonitoring: context filtering and sentiment analysis, as configured
FilterAndAnalyze ==
  /\ pc = "process"
  /\ allMentions' = filterAndAnalyze(allMentions, config)
  /\ pc' = "store"
  /\ UNCHANGED <<arg, rets, mu, calls, config, sources, metrics, run, workers, mentionsChan, errorsChan,
                 mentionsClosed, errorsClosed, ctxDone, overdue, searchWindow,
                 errorCount, urgentMentions, storeCalls, sendCalls, result>>

\* the run returns ret to its caller
Return(ret) ==
  /\ pc' = "returned"
  /\ result' = ret

\* fault for C8: a storeMentions that calls Store for an empty batch too
storeMentions_NoEmptyGuard(mentions, storeErr, next) ==
  /\ storeCalls' = Append(storeCalls, [data |-> jsonMarshal(mentions), err |-> storeErr])
  /\ IF storeErr # NoErr
     THEN Return(storeErr)
     ELSE /\ pc' = next
          /\ UNCHANGED result

\* fault for C10: a run that logs the error of Store and goes on
storeMentions_IgnoreError(mentions, storeErr, next) ==
  /\ IF Len(mentions) = 0
     THEN UNCHANGED storeCalls
     ELSE storeCalls' = Append(storeCalls, [data |-> jsonMarshal(mentions), err |-> storeErr])
  /\ pc' = next
  /\ UNCHANGED result

\* storeMentions(mentions) with Store answering storeErr; on an error the
\* run returns it, otherwise it goes on at next
storeMentions(mentions, storeErr, next) ==
  IF Len(mentions) = 0
  THEN /\ UNCHANGED <<storeCalls, result>>
       /\ pc' = next
  ELSE /\ storeCalls' = Append(storeCalls, [data |-> jsonMarshal(mentions), err |-> storeErr])
       /\ IF storeErr # NoErr
          THEN Return(storeErr)
          ELSE /\ pc' = next
               /\ UNCHANGED result

\* the answers of the storage collaborator's Store
StoreErrors == {NoErr, "store failed"}

\* the answers of the notification collaborator's SendReport
SendErrors == {NoErr, "send failed"}

\* fault for C35: a run that goes from storing to notifying and leaves the
\* Run Metrics for later
StoreMentions_ThenNotify ==
  /\ pc = "store"
  /\ \E storeErr \in StoreErrors : storeMentions(allMentions, storeErr, "report")
  /\ UNCHANGED <<arg, rets, mu, calls, config, sources, metrics, run, workers, mentionsChan, errorsChan,
                 mentionsClosed, errorsClosed, ctxDone, overdue, searchWindow,
                 allMentions, errorCount, urgentMentions, sendCalls>>

\* RunMonitoring: store mentions
StoreMentions ==
  /\ pc = "store"
  /\ \E storeErr \in StoreErrors : storeMentions(allMentions, storeErr, "metrics")
  /\ UNCHANGED <<arg, rets, mu, calls, config, sources, metrics, run, workers, mentionsChan, errorsChan,
                 mentionsClosed, errorsClosed, ctxDone, overdue, searchWindow,
                 allMentions, errorCount, urgentMentions, sendCalls>>

\* RunMonitoring: update metrics
UpdateMetrics ==
  /\ pc = "metrics"
  /\ metrics' = updatedMetrics(metrics, allMentions, errorCount, metrics.LastRun + 1)
  /\ pc' = "report"
  /\ UNCHANGED <<arg, rets, mu, calls, config, sources, run, workers, mentionsChan, errorsChan,
                 mentionsClosed, errorsClosed, ctxDone, overdue, searchWindow,
                 allMentions, errorCount, urgentMentions, storeCalls, sendCalls,
                 result>>

\* fault for C7: a run that sends no report when there is nothing to report
GenerateAndSendReport_SkipEmpty ==
  /\ pc = "report"
  /\ \E order \in MapOrders(CountBySource(allMentions)), sendErr \in SendErrors :
        IF Len(allMentions) = 0
        THEN /\ UNCHANGED sendCalls
             /\ Return(NoErr)
        ELSE /\ sendCalls' = Append(sendCalls, [report |-> generateReport(allMentions, config, order),
                                                 err |-> sendErr])
             /\ Return(sendErr)
  /\ UNCHANGED <<arg, rets, mu, calls, config, sources, metrics, run, workers, mentionsChan, errorsChan,
                 mentionsClosed, errorsClosed, ctxDone, overdue, searchWindow,
                 allMentions, errorCount, urgentMentions, storeCalls>>

\* RunMonitoring: generate and send report, then return
GenerateAndSendReport ==
  /\ pc = "report"
  /\ \E order \in MapOrders(CountBySource(allMentions)), sendErr \in SendErrors :
        /\ sendCalls' = Append(sendCalls, [report |-> generateReport(allMentions, config, order),
                                            err |-> sendErr])
        /\ Return(sendErr)
  /\ UNCHANGED <<arg, rets, mu, calls, config, sources, metrics, run, workers, mentionsChan, errorsChan,
                 mentionsClosed, errorsClosed, ctxDone, overdue, searchWindow,
                 allMentions, errorCount, urgentMentions, storeCalls>>

\* fault for C40: an urgent check that reports the failure of an adapter
\* when it found nothing urgent
FilterUrgent_ReportAdapterErrors ==
  /\ pc = "filterUrgent"
  /\ urgentMentions' = filterUrgentMentions(allMentions)
  /\ IF Len(urgentMentions') = 0
     THEN Return(IF errorsChan # <<>> THEN Head(errorsChan) ELSE NoErr)
     ELSE /\ pc' = "storeUrgent"
          /\ UNCHANGED result
  /\ UNCHANGED <<arg, rets, mu, calls, config, sources, metrics, run, workers, mentionsChan, errorsChan,
                 mentionsClosed, errorsClosed, ctxDone, overdue, searchWindow,
                 allMentions, errorCount, storeCalls, sendCalls>>

\* RunUrgentCheck: filter for urgent mentions; none found ends the run
FilterUrgent ==
  /\ pc = "filterUrgent"
  /\ urgentMentions' = filterUrgentMentions(allMentions)
  /\ IF Len(urgentMentions') = 0
     THEN Return(NoErr)
     ELSE /\ pc' = "storeUrgent"
          /\ UNCHANGED result
  /\ UNCHANGED <<arg, rets, mu, calls, config, sources, metrics, run, workers, mentionsChan, errorsChan,
                 mentionsClosed, errorsClosed, ctxDone, overdue, searchWindow,
                 allMentions, errorCount, storeCalls, sendCalls>>

\* RunUrgentCheck: store urgent mentions
StoreUrgent ==
  /\ pc = "storeUrgent"
  /\ \E storeErr \in StoreErrors : storeMentions(urgentMentions, storeErr, "notifyUrgent")
  /\ UNCHANGED <<arg, rets, mu, calls, config, sources, metrics, run, workers, mentionsChan, errorsChan,
                 mentionsClosed, errorsClosed, ctxDone, overdue, searchWindow,
                 allMentions, errorCount, urgentMentions, sendCalls>>

\* RunUrgentCheck: sendUrgentNotification, then return
SendUrgentNotification ==
  /\ pc = "notifyUrgent"
  /\ \E sendErr \in SendErrors :
        IF Len(urgentMentions) = 0
        THEN /\ UNCHANGED sendCalls
             /\ Return(NoErr)
        ELSE /\ sendCalls' = Append(sendCalls, [report |-> urgentReport(urgentMentions),
                                                 err |-> sendErr])
             /\ Return(IF sendErr # NoErr
                       THEN "failed to send urgent notification: send failed"
                       ELSE NoErr)
  /\ UNCHANGED <<arg, rets, mu, calls, config, sources, metrics, run, workers, mentionsChan, errorsChan,
                 mentionsClosed, errorsClosed, ctxDone, overdue, searchWindow,
                 allMentions, errorCount, urgentMentions, storeCalls>>

Next ==
  \/ StartRunMonitoring
  \/ StartRunUrgentCheck
  \/ DeadlineExpires
  \/ OverheadElapses
  \/ \E w \in Workers : WorkerReturn(w)
  \/ CloseChannels
  \/ Collect
  \/ CollectDone
  \/ CountError
  \/ CountErrorsDone
  \/ FilterAndAnalyze
  \/ StoreMentions
  \/ UpdateMetrics
  \/ GenerateAndSendReport
  \/ FilterUrgent
  \/ StoreUrgent
  \/ SendUrgentNotification

Spec == Init /\ [][Next]_vars

(***************************************************************************)
(* Properties of the fetch orchestration.                                  *)
(***************************************************************************)
\* the collection phase of the run is over (the range over mentionsChan ended)
Collected == pc \in {"countErrors", "process", "store", "metrics", "report",
                     "filterUrgent", "storeUrgent", "notifyUrgent", "returned"}

\* the IDs of the mentions of a list
IDsOf(mentions) == {mentions[i].ID : i \in 1..Len(mentions)}

\* the IDs in the stored batches and in the reports sent by the run
StoredIDs == UNION {{c.data[i].id : i \in 1..Len(c.data)} : c \in Range(storeCalls)}
ReportedIDs == UNION {IDsOf(c.report.Mentions) : c \in Range(sendCalls)}

\* C1: in both entry points FetchMentions is never invoked on a source whose
\* IsEnabled() is false: no worker calls it, so the source makes no network
\* call and contributes neither mentions nor an error to the run.
C1_DisabledSourcesSkipped ==
  \A w \in Workers :
     ~IsEnabled(sources[w], config) =>
        /\ workers[w].state = "idle"
        /\ ~workers[w].result.network
        /\ workers[w].result.err = NoErr
        /\ \A i \in 1..Len(allMentions) : allMentions[i].Source # sources[w]

\* C2: the orchestrator never waits past the shared deadline: once the
\* deadline and a bounded overhead have passed with an adapter still not
\* returned, the collection phase of the run has ended without that adapter.
C2_NoWaitPastDeadline ==
  (overdue /\ AnyRunning) => Collected

\* C3: a mention list that an adapter returns after the shared deadline has
\* expired is dropped: none of its mentions is in the merged list, in the
\* stored batch or in the report.
C3_LateResultsDropped ==
  \A w \in Workers :
     (workers[w].state = "done" /\ workers[w].late) =>
        IDsOf(workers[w].result.mentions)
           \cap (IDsOf(allMentions) \cup StoredIDs \cup ReportedIDs) = {}

\* number of occurrences of mention m in a list
Occurrences(mentions, m) == Cardinality({i \in 1..Len(mentions) : mentions[i] = m})

\* the adapters whose FetchMentions returned a non-nil error
Errored == {w \in Workers : workers[w].state = "done" /\ workers[w].result.err # NoErr}

\* the adapters whose FetchMentions returned a list and a nil error
Succeeded == {w \in Workers : workers[w].state = "done" /\ workers[w].result.err = NoErr}

RECURSIVE SumOccurrences(_, _)
\* occurrences of m over the lists returned by the adapters ws
SumOccurrences(ws, m) ==
  IF ws = {} THEN 0
  ELSE LET w == CHOOSE x \in ws : TRUE
       IN  Occurrences(workers[w].result.mentions, m) + SumOccurrences(ws \ {w}, m)

\* every mention an adapter of the run can return
AllItems == UNION {Range(PlatformItems(sources[w])) : w \in Workers}

\* C4: partial-failure resilience: when the collection of a run is over, every
\* adapter has been run, the merged list is the multiset union of the lists of
\* the adapters that returned a nil error, and the error count of a full run
\* (the local count, and Metrics.ErrorCount once updated) is the number of
\* adapters that returned an error.
C4_PartialFailureResilience ==
  /\ (pc \in {"countErrors", "process", "filterUrgent"}) =>
        /\ \A w \in Workers : workers[w].state = "done"
        /\ \A m \in AllItems : Occurrences(allMentions, m) = SumOccurrences(Succeeded, m)
  /\ (run = "full" /\ pc \in {"process", "store", "metrics", "report"}) =>
        errorCount = Cardinality(Errored)
  /\ (run = "full" /\ pc = "report") => metrics.ErrorCount = Cardinality(Errored)

\* a full run in which one adapter failed and another one's mentions were merged
C4_Witness ==
  /\ run = "full"
  /\ pc = "report"
  /\ Errored # {}
  /\ \E w \in Succeeded : workers[w].result.mentions # <<>>
  /\ metrics.ErrorCount = Cardinality(Errored)

\* C5: the expiry of the shared deadline is never reported as a failure: an
\* adapter that stopped because the context was done does not add to the error
\* count of the run, and the run does not return an error for that reason.
C5_DeadlineIsNotAnError ==
  /\ (run = "full" /\ pc \in {"process", "store", "metrics", "report"}) =>
        errorCount = Cardinality({w \in Errored : workers[w].result.err # ErrCtx})
  /\ (run = "full" /\ pc = "report") =>
        metrics.ErrorCount = Cardinality({w \in Errored : workers[w].result.err # ErrCtx})
  /\ result # ErrCtx

\* C6: urgency requires relevance: every mention of the batch RunUrgentCheck
\* stores and of the urgent report it sends satisfies both isRelevantMention
\* and isUrgentMention.
C6_UrgencyRequiresRelevance ==
  run = "urgent" =>
     /\ storeCalls # <<>> =>
           \A i \in 1..Len(urgentMentions) :
              isRelevantMention(urgentMentions[i]) /\ isUrgentMention(urgentMentions[i])
     /\ \A c \in Range(sendCalls) :
           \A i \in 1..Len(c.report.Mentions) :
              /\ isRelevantMention(c.report.Mentions[i])
              /\ isUrgentMention(c.report.Mentions[i])

\* Store answered with an error in this run
StoreFailed == \E c \in Range(storeCalls) : c.err # NoErr

\* C7 as stated: every RunMonitoring invocation calls SendReport exactly once.
C7_SendReportExactlyOnce ==
  (run = "full" /\ pc = "returned") => Len(sendCalls) = 1

\* C7, amended: a RunMonitoring invocation never calls SendReport twice, and
\* when it returns it has called SendReport exactly once, also for an empty
\* final mention list, unless Store failed, in which case it has not called it.
C7_SendReportOnceUnlessStoreFailed ==
  run = "full" =>
     /\ Len(sendCalls) <= 1
     /\ pc = "returned" => Len(sendCalls) = (IF StoreFailed THEN 0 ELSE 1)

\* a full run that ended with an empty mention list and sent its report
C7_Witness ==
  /\ run = "full"
  /\ pc = "returned"
  /\ allMentions = <<>>
  /\ Len(sendCalls) = 1
  /\ sendCalls[1].report.TotalMentions = 0

IsUrgentReport(c) ==
  /\ c.report.Period # config.ReportSchedule
  /\ "type" \in DOMAIN c.report.Summary
  /\ c.report.Summary["type"] = "urgent"
  /\ c.report.Mentions = urgentMentions

\* C9 as stated: a RunUrgentCheck with no urgent mention returns nil without
\* Store or SendReport; otherwise it calls Store once with the urgent subset
\* and then SendReport once with the urgent report.
C9_UrgentTerminalStates ==
  (run = "urgent" /\ pc = "returned") =>
     IF urgentMentions = <<>>
     THEN result = NoErr /\ storeCalls = <<>> /\ sendCalls = <<>>
     ELSE /\ Len(storeCalls) = 1
          /\ storeCalls[1].data = jsonMarshal(urgentMentions)
          /\ Len(sendCalls) = 1
          /\ IsUrgentReport(sendCalls[1])

\* C9, amended: a RunUrgentCheck with no urgent mention returns nil without
\* Store or SendReport; otherwise it calls Store exactly once with exactly the
\* urgent subset and then, if Store succeeded, SendReport exactly once with a
\* report whose Period differs from the configured schedule label and whose
\* Summary flags it as urgent; SendReport is never called before Store.
C9_UrgentTerminalStatesStoreOk ==
  run = "urgent" =>
     /\ sendCalls # <<>> => storeCalls # <<>>
     /\ pc = "returned" =>
           IF urgentMentions = <<>>
           THEN result = NoErr /\ storeCalls = <<>> /\ sendCalls = <<>>
           ELSE /\ Len(storeCalls) = 1
                /\ storeCalls[1].data = jsonMarshal(urgentMentions)
                /\ urgentMentions = filterUrgentMentions(allMentions)
                /\ IF StoreFailed
                   THEN sendCalls = <<>>
                   ELSE Len(sendCalls) = 1 /\ IsUrgentReport(sendCalls[1])

\* an urgent check that stored its urgent mentions and sent the urgent report
C9_Witness ==
  /\ run = "urgent"
  /\ pc = "returned"
  /\ urgentMentions # <<>>
  /\ Len(urgentMentions) < Len(allMentions)
  /\ Len(storeCalls) = 1
  /\ Len(sendCalls) = 1

\* C10: when Store returns an error during RunMonitoring or RunUrgentCheck,
\* the run returns that error to its caller and does not call SendReport.
C10_StoreFailureIsFatal ==
  \A c \in Range(storeCalls) :
     c.err # NoErr => (pc = "returned" /\ result = c.err /\ sendCalls = <<>>)

\* a run in which Store failed
C10_Witness ==
  /\ StoreFailed
  /\ pc = "returned"
  /\ result = "store failed"

(***************************************************************************)
(* The report builder evaluated on its own: generateReport on mention      *)
(* lists drawn from a bounded set, in a service at rest.                   *)
(***************************************************************************)
\* the longest mention list handed to generateReport
MaxMentions == 3

\* the configuration Load builds from an empty environment
DefaultConfig ==
  [ReportSchedule |-> "weekly", EnableContextFiltering |-> TRUE,
   EnableSentimentAnalysis |-> TRUE, RedditClientID |-> "",
   RedditClientSecret |-> "secret", TwitterBearerToken |-> "",
   YouTubeAPIKey |-> "", Keywords |-> <<"AKS">>]

\* a service at rest: the first adapters registered, the default configuration
AtRest ==
  /\ NewService({DefaultConfig})
  /\ sources = SubSeq(AllSources, 1, NumSources)

\* mentions as generateReport receives them: a source id and a sentiment
\* label, which is unset when sentiment analysis is disabled
ReportMentions ==
  {[NewMention("m", src, "", "", 1) EXCEPT !.Sentiment = label] :
     src \in {"reddit", "stackoverflow"},
     label \in {"", "positive", "negative", "neutral"}}

\* the mention lists of at most MaxMentions mentions
ReportMentionLists ==
  UNION {[1..n -> ReportMentions] : n \in 0..MaxMentions}

InitReport ==
  /\ AtRest
  /\ arg \in ReportMentionLists
  /\ rets = <<>>
  /\ calls = <<>>

\* report := s.generateReport(mentions), up to twice for one list
ApplyGenerateReport ==
  /\ Len(rets) < 2
  /\ \E order \in MapOrders(CountBySource(arg)) :
        rets' = Append(rets, generateReport(arg, config, order))
  /\ UNCHANGED <<arg, serviceVars>>

NextReport == ApplyGenerateReport

SpecReport == InitReport /\ [][NextReport]_vars

RECURSIVE SumValues(_)
\* the sum of the values of a map[string]int
SumValues(m) ==
  IF DOMAIN m = {} THEN 0
  ELSE LET k == CHOOSE x \in DOMAIN m : TRUE
       IN  m[k] + SumValues([x \in DOMAIN m \ {k} |-> m[x]])

\* C11: report totals: for every mention list M, generateReport(M) has
\* TotalMentions = len(M) and Mentions = M, the values of Summary["sources"]
\* and of Summary["sentiment"] each sum to len(M), and each source id and each
\* sentiment label (the unset one included) is counted once per mention
\* carrying it.
C11_ReportTotals ==
  \A i \in 1..Len(rets) :
     LET report == rets[i]
         bySource == report.Summary["sources"]
         bySentiment == report.Summary["sentiment"]
     IN  /\ report.TotalMentions = Len(arg)
         /\ report.Mentions = arg
         /\ SumValues(bySource) = Len(arg)
         /\ SumValues(bySentiment) = Len(arg)
         /\ DOMAIN bySource = {arg[j].Source : j \in 1..Len(arg)}
         /\ DOMAIN bySentiment = {arg[j].Sentiment : j \in 1..Len(arg)}
         /\ \A k \in DOMAIN bySource :
               bySource[k] = Cardinality({j \in 1..Len(arg) : arg[j].Source = k})
         /\ \A k \in DOMAIN bySentiment :
               bySentiment[k] = Cardinality({j \in 1..Len(arg) : arg[j].Sentiment = k})

\* a report built from two mentions of one source, one of them without a label
C11_Witness ==
  /\ Len(rets) = 1
  /\ Len(arg) >= 2
  /\ arg[1].Source = arg[2].Source
  /\ arg[1].Sentiment = ""
  /\ arg[2].Sentiment = "positive"
  /\ rets[1].Summary["sentiment"][""] = 1

ProbeTitles == {"", "AKS", "aks pod", "AKS rifle", "kaito", "helm"}

\* contents of the mentions the heuristics are evaluated on
ProbeContents ==
  {"", "good", "good bad", "good good bad", "bad bad good", "Great success",
   "error", "it works", "kind bug", "AKS on Microsoft Azure", "Migrating to EKS",
   "azure kubernetes cluster"}

\* source ids: those of the registered adapters and one no adapter uses
ProbeSources == Range(AllSources) \cup {"unknown"}

ProbeMentions ==
  {NewMention("m", src, title, content, 1) :
     src \in ProbeSources, title \in ProbeTitles, content \in ProbeContents}

InitHeuristics ==
  /\ AtRest
  /\ arg \in ProbeMentions
  /\ rets = <<>>
  /\ calls = <<>>

\* filterByContext: if s.isRelevantMention(mention)
ApplyIsRelevantMention ==
  /\ rets = <<>>
  /\ rets' = <<[fn |-> "isRelevantMention", value |-> isRelevantMention(arg)]>>
  /\ UNCHANGED <<arg, serviceVars>>

\* analyzeSentiment: s.basicSentimentAnalysis(mentions[i].Content)
ApplyBasicSentimentAnalysis ==
  /\ rets = <<>>
  /\ rets' = <<[fn |-> "basicSentimentAnalysis",
                value |-> basicSentimentAnalysis(arg.Content)]>>
  /\ UNCHANGED <<arg, serviceVars>>

NextHeuristics ==
  \/ ApplyIsRelevantMention
  \/ ApplyBasicSentimentAnalysis

SpecHeuristics == InitHeuristics /\ [][NextHeuristics]_vars

\* the lower-cased title+content of the mention under evaluation
ArgText == mentionText(arg)

\* isRelevantMention has been evaluated on arg
RelevanceKnown == rets # <<>> /\ rets[1].fn = "isRelevantMention"

\* some negative-indicator term occurs in the text
HasNegative == \E i \in 1..Len(negativeIndicators) : Contains(ArgText, Chars[negativeIndicators[i]])

\* some primary positive indicator occurs in the text
HasPrimary == \E i \in 1..Len(azureIndicators) : Contains(ArgText, Chars[azureIndicators[i]])

\* a core term occurs in the text
HasCore == Contains(ArgText, Chars["aks"]) \/ Contains(ArgText, Chars["azure kubernetes"])

\* some secondary Kubernetes-context term occurs in the text
HasSecondary ==
  \E i \in 1..Len(kubernetesIndicators) : Contains(ArgText, Chars[kubernetesIndicators[i]])

\* C13: negative-indicator precedence: for a mention of any source whose
\* lower-cased title+content contains a negative-indicator term,
\* isRelevantMention returns false, also when primary positive indicators occur.
C13_NegativePrecedence ==
  (RelevanceKnown /\ HasNegative) => rets[1].value = FALSE

\* a rejected mention with a negative and a primary positive indicator
C13_Witness ==
  /\ RelevanceKnown
  /\ HasNegative
  /\ HasPrimary
  /\ rets[1].value = FALSE

\* the source ids isRelevantMention treats as technical
TechnicalSources == {"reddit", "stackoverflow", "hackernews"}

\* some primary positive indicator other than the core terms occurs in the text
HasOtherPrimary ==
  \E i \in 1..Len(azureIndicators) :
     /\ azureIndicators[i] \notin {"aks", "azure kubernetes"}
     /\ Contains(ArgText, Chars[azureIndicators[i]])

\* C14: source-sensitivity asymmetry: for a mention whose text has no negative
\* indicator, a core term ("aks" or "azure kubernetes") and a secondary
\* Kubernetes-context term, but no primary positive indicator,
\* isRelevantMention returns true for the sources reddit, stackoverflow and
\* hackernews and false for every other source.  The core terms are themselves
\* entries of the primary list of the code, so "no primary positive indicator"
\* is read as: none besides the core term.
C14_SourceAsymmetry ==
  (RelevanceKnown /\ ~HasNegative /\ HasCore /\ HasSecondary /\ ~HasOtherPrimary) =>
     rets[1].value = (arg.Source \in TechnicalSources)

\* C15: high-noise sources are held to a stricter bar: for a mention of
\* source "youtube" whose text contains "aks" but no Kubernetes-context term,
\* isRelevantMention returns false.
C15_YouTubeNeedsContext ==
  (/\ RelevanceKnown
   /\ arg.Source = "youtube"
   /\ Contains(ArgText, Chars["aks"])
   /\ ~HasSecondary) => rets[1].value = FALSE

SentimentKnown == rets # <<>> /\ rets[1].fn = "basicSentimentAnalysis"

\* the lower-cased content of the mention under evaluation
ArgContent == ToLower(Chars[arg.Content])

\* number of places of text at which word occurs
Places(text, word) ==
  Cardinality({i \in 1..(Len(text) - Len(word) + 1) :
                 \A j \in 1..Len(word) : text[i + j - 1] = word[j]})

RECURSIVE SumPlaces(_, _, _)
\* number of substring occurrences in text of the words list[i..]
SumPlaces(text, list, i) ==
  IF i > Len(list) THEN 0
  ELSE Places(text, Chars[list[i]]) + SumPlaces(text, list, i + 1)

\* the words of list that occur in text
WordsIn(text, list) == {w \in Range(list) : Places(text, Chars[w]) > 0}

\* the label for a positive and a negative count
LabelOf(positiveCount, negativeCount) ==
  IF positiveCount > negativeCount THEN "positive"
  ELSE IF negativeCount > positiveCount THEN "negative"
  ELSE "neutral"

\* C17 as stated: basicSentimentAnalysis returns "positive" iff the number of
\* substring occurrences of positive-list words in the lower-cased text exceeds
\* the number of substring occurrences of negative-list words, "negative" iff
\* the reverse, and "neutral" when the two counts are equal.
C17_SentimentByOccurrences ==
  SentimentKnown =>
     rets[1].value = LabelOf(SumPlaces(ArgContent, positiveWords, 1),
                             SumPlaces(ArgContent, negativeWords, 1))

\* C17, amended: basicSentimentAnalysis returns "positive" iff the number of
\* positive-list words that occur in the lower-cased text, each word counted
\* once however often it occurs, exceeds the number of negative-list words that
\* occur, "negative" iff the reverse, and "neutral" when the two numbers are
\* equal (0-0 included).
C17_SentimentByDistinctWords ==
  SentimentKnown =>
     rets[1].value = LabelOf(Cardinality(WordsIn(ArgContent, positiveWords)),
                             Cardinality(WordsIn(ArgContent, negativeWords)))

\* a text with one positive word twice and one negative word once is neutral
C17_Witness ==
  /\ SentimentKnown
  /\ SumPlaces(ArgContent, positiveWords, 1) = 2
  /\ SumPlaces(ArgContent, negativeWords, 1) = 1
  /\ rets[1].value = "neutral"

(***************************************************************************)
(* getTopSources evaluated on its own, on source-count maps drawn from a   *)
(* bounded set.                                                            *)
(***************************************************************************)
\* the largest number of sources in a source-count map
MaxTopSources == 6

\* source-count maps over the first n registered adapters, n up to
\* MaxTopSources, with counts 1 and 2; the counts do not decrease along the
\* registration order, the other arrangements being covered by the orders in
\* which the map is ranged over
SourceCounts ==
  UNION {{m \in [Range(SubSeq(AllSources, 1, n)) -> {1, 2}] :
            \A i, j \in 1..n : i < j => m[AllSources[i]] <= m[AllSources[j]]} :
         n \in 0..MaxTopSources}

InitTopSources ==
  /\ AtRest
  /\ arg \in SourceCounts
  /\ rets = <<>>
  /\ calls = <<>>

\* report.Summary["top_sources"] = s.getTopSources(sourceCount)
ApplyGetTopSources ==
  /\ rets = <<>>
  /\ \E order \in MapOrders(arg) : rets' = <<getTopSources(arg, order)>>
  /\ UNCHANGED <<arg, serviceVars>>

NextTopSources == ApplyGetTopSources

SpecTopSources == InitTopSources /\ [][NextTopSources]_vars

\* the entry "name (count)" of source in the map sourceCount
TopEntry(sourceCount, source) ==
  Chars[source] \o Chars[" ("] \o Itoa(sourceCount[source]) \o Chars[")"]

\* the sources whose entries make up the list top
Listed(sourceCount, top) ==
  {s \in DOMAIN sourceCount : \E i \in 1..Len(top) : top[i] = TopEntry(sourceCount, s)}

\* C18: for every source-count map, getTopSources returns min(5, number of
\* sources) entries, each the "name (count)" of a different source of the map,
\* in the order of non-increasing count, and no source left out has a count
\* greater than one that is listed.
C18_TopSources ==
  \A r \in 1..Len(rets) :
     LET top == rets[r]
         n == Cardinality(DOMAIN arg)
         listed == Listed(arg, top)
     IN  /\ Len(top) = IF n < 5 THEN n ELSE 5
         /\ Cardinality(listed) = Len(top)
         /\ \A i \in 1..Len(top) : \E s \in DOMAIN arg : top[i] = TopEntry(arg, s)
         /\ \A i, j \in 1..Len(top) :
               i < j => \A s, t \in DOMAIN arg :
                           (top[i] = TopEntry(arg, s) /\ top[j] = TopEntry(arg, t))
                              => arg[s] >= arg[t]
         /\ \A s \in listed, t \in DOMAIN arg \ listed : arg[t] <= arg[s]

\* six sources of two different counts: five listed, one with the lower count left out
C18_Witness ==
  /\ Len(rets) = 1
  /\ Cardinality(DOMAIN arg) = 6
  /\ Len(rets[1]) = 5
  /\ \E s, t \in DOMAIN arg : arg[s] = 2 /\ arg[t] = 1
  /\ rets[1][1] = TopEntry(arg, "medium")

\* C19: top_sources is deterministic within one process run: two reports
\* built from the same mention list have the same top_sources list.
C19_TopSourcesDeterministic ==
  Len(rets) = 2 => rets[1].Summary["top_sources"] = rets[2].Summary["top_sources"]

(***************************************************************************)
(* The start of a run on its own: the lookback window and its hand-over to *)
(* the adapters, for a service built from any configuration, before its    *)
(* first run and after an earlier one.                                     *)
(***************************************************************************)
\* configurations as a caller of NewService can build them: those Load
\* accepts and those with the zero value of ReportSchedule
WindowConfigs ==
  Configs \cup {[c EXCEPT !.ReportSchedule = ""] : c \in Configs}

\* a run is invoked arg hours after metrics.LastRun
InitWindow ==
  /\ ServiceBetweenRuns(WindowConfigs, {0, 5})
  /\ arg \in ElapsedHours
  /\ rets = <<>>
  /\ calls = <<>>

\* RunMonitoring is invoked now
RunMonitoringNow == RunMonitoringAt(arg)

NextWindow ==
  \/ RunMonitoringNow
  \/ StartRunUrgentCheck

SpecWindow == InitWindow /\ [][NextWindow]_vars

\* C20: window selection: in a RunMonitoring invocation the lookback window is
\* computed once and every adapter is passed that value; it is 24 hours for
\* the period "daily", 168 hours for "weekly", and otherwise the time since the
\* last run recorded in the metrics, or 24 hours if that is longer or no run is
\* recorded.  RunUrgentCheck passes the window of 4 hours to every adapter.
C20_WindowSelection ==
  /\ run # "none" => \A w \in Workers : workers[w].since = searchWindow
  /\ run = "urgent" => searchWindow = 4
  /\ run = "full" =>
        searchWindow =
           CASE config.ReportSchedule = "daily" -> 24
             [] config.ReportSchedule = "weekly" -> 168
             [] OTHER -> IF metrics.LastRun = 0 \/ arg < 24 THEN 24 ELSE arg

\* a full run with no known period, 30 hours after the last one: 30 hours for every adapter
C20_Witness ==
  /\ run = "full"
  /\ config.ReportSchedule = ""
  /\ metrics.LastRun # 0
  /\ arg = 30
  /\ \A w \in Workers : workers[w].state = "running" /\ workers[w].since = 30

(***************************************************************************)
(* A run of a service that has run before: the Run Metrics hold the        *)
(* outcome of an earlier RunMonitoring of the same service.                *)
(***************************************************************************)
\* the configurations of the daily schedule
DailyConfigs == {c \in Configs : c.ReportSchedule = "daily"}

\* outcomes of an earlier RunMonitoring under cfg: the mentions collected, the
\* number of adapters that failed, and the time updateMetrics ran; the Stack
\* Overflow adapter needs no credentials, the Reddit one can fail only if enabled
EarlierRuns(cfg) ==
  {[collected |-> PlatformItems("stackoverflow"), errors |-> 0, at |-> 1]}
     \cup (IF IsEnabled("reddit", cfg)
          THEN {[collected |-> <<>>, errors |-> 1, at |-> 3]}
          ELSE {})

\* the Run Metrics an earlier RunMonitoring under cfg left behind
EarlierMetrics(cfg) ==
  {updatedMetrics(ZeroMetrics, filterAndAnalyze(r.collected, cfg), r.errors, r.at) :
     r \in EarlierRuns(cfg)}

InitRuns ==
  /\ ServiceIdle(DailyConfigs, UNION {EarlierMetrics(c) : c \in DailyConfigs})
  /\ metrics \in EarlierMetrics(config)
  /\ sources = SubSeq(AllSources, 1, NumSources)
  /\ arg = <<>>
  /\ rets = <<>>
  /\ calls = <<>>

SpecRuns == InitRuns /\ [][Next]_vars

\* the run in progress is a RunMonitoring that has updated the Run Metrics
MetricsUpdated == run = "full" /\ pc \in {"report", "returned"} /\ ~StoreFailed

\* C21: the Run Metrics are overwritten, not merged: once a RunMonitoring has
\* updated them, whatever the runs before it left there, TotalMentions,
\* SourceMetrics, SentimentBreakdown and ErrorCount are those of the final
\* mention list and of the error count of this run alone (no key and no count
\* of an earlier run is left), and TotalMentions is the sum of SourceMetrics
\* and the sum of SentimentBreakdown.
C21_MetricsOverwritten ==
  MetricsUpdated =>
     /\ metrics.TotalMentions = Len(allMentions)
     /\ metrics.ErrorCount = errorCount
     /\ DOMAIN metrics.SourceMetrics = {allMentions[i].Source : i \in 1..Len(allMentions)}
     /\ \A k \in DOMAIN metrics.SourceMetrics :
           metrics.SourceMetrics[k] =
              Cardinality({i \in 1..Len(allMentions) : allMentions[i].Source = k})
     /\ DOMAIN metrics.SentimentBreakdown =
           {allMentions[i].Sentiment : i \in 1..Len(allMentions)}
     /\ \A k \in DOMAIN metrics.SentimentBreakdown :
           metrics.SentimentBreakdown[k] =
              Cardinality({i \in 1..Len(allMentions) : allMentions[i].Sentiment = k})
     /\ SumValues(metrics.SourceMetrics) = metrics.TotalMentions
     /\ SumValues(metrics.SentimentBreakdown) = metrics.TotalMentions

\* after a run that counted Stack Overflow mentions, a run in which an adapter
\* failed and nothing was found: no key of the earlier run is left
C21_Witness ==
  /\ MetricsUpdated
  /\ metrics.LastRun = 2
  /\ allMentions = <<>>
  /\ metrics.ErrorCount = 1
  /\ metrics.SourceMetrics = <<>>

\* the batch the run in progress hands to the storage collaborator
HandedOver == IF run = "full" THEN allMentions ELSE urgentMentions

\* C23: both entry points end by updating the Run Metrics: when a RunMonitoring
\* or a RunUrgentCheck invocation has completed its hand-off to storage and
\* notification, the Run Metrics hold the last run time, the counts and the
\* error count of that run.
C23_BothEntryPointsUpdateMetrics ==
  (run # "none" /\ pc = "returned" /\ sendCalls # <<>>) =>
     /\ metrics.LastRun # 0
     /\ metrics.TotalMentions = Len(HandedOver)
     /\ metrics.SourceMetrics = CountBySource(HandedOver)
     /\ run = "full" => metrics.ErrorCount = errorCount

\* the positions of the mentions of a list that RunMonitoring keeps under cfg
KeptPositions(mentions, cfg) ==
  {i \in 1..Len(mentions) : cfg.EnableContextFiltering => isRelevantMention(mentions[i])}

\* the k-th smallest of a set of positions
KthPosition(positions, k) ==
  CHOOSE i \in positions : Cardinality({j \in positions : j < i}) = k - 1

\* a mention without regard to its sentiment field
ApartFromSentiment(mention) == [mention EXCEPT !.Sentiment = ""]

\* C24: configuration-gated pipeline: when EnableContextFiltering is true the
\* batch RunMonitoring stores and reports is exactly the subsequence of the
\* collected mentions that satisfy isRelevantMention, and when it is false
\* every collected mention is kept; when EnableSentimentAnalysis is false the
\* run modifies no mention's sentiment field.
C24_ConfigurationGatedPipeline ==
  /\ [][(run = "full" /\ pc = "process") =>
          LET kept == KeptPositions(allMentions, config)
          IN  /\ Len(allMentions') = Cardinality(kept)
              /\ \A k \in 1..Len(allMentions') :
                    LET i == KthPosition(kept, k)
                    IN  /\ ApartFromSentiment(allMentions'[k]) = ApartFromSentiment(allMentions[i])
                        /\ ~config.EnableSentimentAnalysis =>
                              allMentions'[k].Sentiment = allMentions[i].Sentiment]_vars
  /\ [][(run = "full" /\ pc \notin {"collect", "process"}) => allMentions' = allMentions]_vars
  /\ [](run = "full" =>
          /\ \A c \in Range(storeCalls) : c.data = jsonMarshal(allMentions)
          /\ \A c \in Range(sendCalls) : c.report.Mentions = allMentions)

\* a full run with context filtering on and sentiment analysis off that stored
\* a batch from which a collected mention was filtered out
C24_Witness ==
  /\ run = "full"
  /\ config.EnableContextFiltering
  /\ ~config.EnableSentimentAnalysis
  /\ Len(storeCalls) = 1
  /\ \E w \in Succeeded : \E m \in Range(workers[w].result.mentions) :
        ~isRelevantMention(m) /\ m \notin Range(allMentions)
  /\ \A i \in 1..Len(allMentions) : allMentions[i].Sentiment = ""

(***************************************************************************)
(* The Run Metrics under concurrent access: updateMetrics called by        *)
(* overlapping RunMonitoring invocations (the scheduler's and the one the  *)
(* /trigger endpoint starts) and GetMetrics called by /metrics requests,   *)
(* statement by statement, with Service.mu as the code takes it.           *)
(***************************************************************************)
\* the number of /metrics requests in flight
MaxReaders == 2

\* the goroutines that call updateMetrics, and those that call GetMetrics
Updaters == {<<"scheduler", 1>>, <<"trigger", 1>>}
Readers == {<<"metrics", i>> : i \in 1..MaxReaders}

\* what a RunMonitoring invocation passes to updateMetrics
UpdateInputs ==
  {[mentions |-> <<>>, errors |-> 2],
   [mentions |-> analyzeSentiment(PlatformItems("reddit")), errors |-> 0],
   [mentions |-> PlatformItems("stackoverflow"), errors |-> 1]}

\* the fields of Metrics in the order json.MarshalIndent encodes them
MetricsFields ==
  <<"TotalMentions", "LastRun", "SourceMetrics", "SentimentBreakdown", "ErrorCount">>

\* the json tag of a field of Metrics
JsonTag(field) ==
  CASE field = "TotalMentions" -> "total_mentions"
    [] field = "LastRun" -> "last_run"
    [] field = "SourceMetrics" -> "source_metrics"
    [] field = "SentimentBreakdown" -> "sentiment_breakdown"
    [] field = "ErrorCount" -> "error_count"

\* json.MarshalIndent(s.metrics, ...): the object keyed by the json tags
marshalMetrics(m) ==
  [tag \in {JsonTag(MetricsFields[k]) : k \in 1..Len(MetricsFields)} |->
     LET k == CHOOSE j \in 1..Len(MetricsFields) : JsonTag(MetricsFields[j]) = tag
     IN  m[MetricsFields[k]]]

\* a call that has not started
NotStarted(first) == [pc |-> first, i |-> 1, snap |-> <<>>]

InitLock ==
  /\ AtRest
  /\ arg \in [Updaters -> UpdateInputs]
  /\ rets = <<>>
  /\ calls = [c \in Updaters \cup Readers |->
                IF c \in Updaters THEN NotStarted("Lock") ELSE NotStarted("RLock")]

\* sync.RWMutex.Lock returns: no writer and no reader holds the mutex
CanLock(m) == ~m.writer /\ m.readers = 0

\* fault for C22: a GetMetrics that does not wait for a writer
CanRLock_Unguarded(m) == TRUE

\* sync.RWMutex.RLock returns: no writer holds the mutex
CanRLock(m) == ~m.writer

\* updateMetrics: s.mu.Lock()
UpdateLock(u) ==
  /\ calls[u].pc = "Lock"
  /\ CanLock(mu)
  /\ mu' = [mu EXCEPT !.writer = TRUE]
  /\ calls' = [calls EXCEPT ![u].pc = "TotalMentions"]
  /\ UNCHANGED <<arg, rets, metrics, runVars>>

\* updateMetrics: the assignments to TotalMentions, LastRun and ErrorCount
UpdateScalar(u) ==
  /\ calls[u].pc \in {"TotalMentions", "LastRun", "ErrorCount"}
  /\ metrics' =
       CASE calls[u].pc = "TotalMentions" ->
              [metrics EXCEPT !.TotalMentions = Len(arg[u].mentions)]
         [] calls[u].pc = "LastRun" -> [metrics EXCEPT !.LastRun = metrics.LastRun + 1]
         [] calls[u].pc = "ErrorCount" -> [metrics EXCEPT !.ErrorCount = arg[u].errors]
  /\ calls' = [calls EXCEPT ![u].pc =
                 CASE calls[u].pc = "TotalMentions" -> "LastRun"
                   [] calls[u].pc = "LastRun" -> "ErrorCount"
                   [] calls[u].pc = "ErrorCount" -> "SourceMetrics"]
  /\ UNCHANGED <<arg, rets, mu, runVars>>

\* updateMetrics: reset counters
UpdateReset(u) ==
  /\ calls[u].pc \in {"SourceMetrics", "SentimentBreakdown"}
  /\ metrics' = [metrics EXCEPT ![calls[u].pc] = <<>>]
  /\ calls' = [calls EXCEPT ![u].pc =
                 IF calls[u].pc = "SourceMetrics" THEN "SentimentBreakdown" ELSE "count"]
  /\ UNCHANGED <<arg, rets, mu, runVars>>

\* m[key]++ on a Go map[string]int
Increment(m, key) ==
  [k \in DOMAIN m \cup {key} |-> IF k = key THEN (IF k \in DOMAIN m THEN m[k] ELSE 0) + 1 ELSE m[k]]

\* updateMetrics: one iteration of the loop that counts by source and sentiment
UpdateCount(u) ==
  /\ calls[u].pc = "count"
  /\ calls[u].i <= Len(arg[u].mentions)
  /\ LET mention == arg[u].mentions[calls[u].i]
     IN  metrics' = [metrics EXCEPT
                       !.SourceMetrics = Increment(@, mention.Source),
                       !.SentimentBreakdown = Increment(@, mention.Sentiment)]
  /\ calls' = [calls EXCEPT ![u].i = @ + 1]
  /\ UNCHANGED <<arg, rets, mu, runVars>>

\* updateMetrics returns: the deferred s.mu.Unlock()
UpdateUnlock(u) ==
  /\ calls[u].pc = "count"
  /\ calls[u].i > Len(arg[u].mentions)
  /\ mu' = [mu EXCEPT !.writer = FALSE]
  /\ calls' = [calls EXCEPT ![u].pc = "done"]
  /\ UNCHANGED <<arg, rets, metrics, runVars>>

\* GetMetrics: s.mu.RLock()
GetMetricsRLock(r) ==
  /\ calls[r].pc = "RLock"
  /\ CanRLock(mu)
  /\ mu' = [mu EXCEPT !.readers = @ + 1]
  /\ calls' = [calls EXCEPT ![r].pc = "marshal"]
  /\ UNCHANGED <<arg, rets, metrics, runVars>>

\* GetMetrics: json.MarshalIndent encodes the next field of s.metrics
GetMetricsField(r) ==
  /\ calls[r].pc = "marshal"
  /\ calls[r].i <= Len(MetricsFields)
  /\ LET field == MetricsFields[calls[r].i]
     IN  calls' = [calls EXCEPT ![r].snap = @ @@ (JsonTag(field) :> metrics[field]),
                                ![r].i = @ + 1]
  /\ UNCHANGED <<arg, rets, metrics, mu, runVars>>

\* GetMetrics returns the encoded metrics: the deferred s.mu.RUnlock()
GetMetricsReturn(r) ==
  /\ calls[r].pc = "marshal"
  /\ calls[r].i > Len(MetricsFields)
  /\ mu' = [mu EXCEPT !.readers = @ - 1]
  /\ rets' = Append(rets, calls[r].snap)
  /\ calls' = [calls EXCEPT ![r].pc = "done"]
  /\ UNCHANGED <<arg, metrics, runVars>>

NextLock ==
  \/ \E u \in Updaters : UpdateLock(u)
  \/ \E u \in Updaters : UpdateScalar(u)
  \/ \E u \in Updaters : UpdateReset(u)
  \/ \E u \in Updaters : UpdateCount(u)
  \/ \E u \in Updaters : UpdateUnlock(u)
  \/ \E r \in Readers : GetMetricsRLock(r)
  \/ \E r \in Readers : GetMetricsField(r)
  \/ \E r \in Readers : GetMetricsReturn(r)

SpecLock == InitLock /\ [][NextLock]_vars

\* the calls of updateMetrics between Lock and Unlock, and of GetMetrics
\* between RLock and RUnlock
Writing == {u \in Updaters : calls[u].pc \notin {"Lock", "done"}}
Reading == {r \in Readers : calls[r].pc = "marshal"}

\* the encoded metrics are those NewService built or those of one whole update
WholeUpdate(snapshot) ==
  \/ snapshot = marshalMetrics(ZeroMetrics)
  \/ \E u \in Updaters, now \in 1..Cardinality(Updaters) :
        snapshot = marshalMetrics(updatedMetrics(ZeroMetrics, arg[u].mentions, arg[u].errors, now))

\* C22: metrics lock discipline: under every interleaving of GetMetrics calls
\* with the metric updates of overlapping RunMonitoring invocations, an update
\* excludes all readers and other writers, no GetMetrics snapshot mixes fields
\* of two different updates, and a snapshot taken before any update is the
\* zero/empty metrics.
C22_MetricsLockDiscipline ==
  /\ Cardinality(Writing) <= 1
  /\ Writing # {} => Reading = {}
  /\ Writing = {} => WholeUpdate(marshalMetrics(metrics))
  /\ \A k \in 1..Len(rets) : WholeUpdate(rets[k])
  /\ (\A u \in Updaters : calls[u].pc = "Lock") =>
        \A k \in 1..Len(rets) : rets[k] = marshalMetrics(ZeroMetrics)

\* a snapshot of the first update was returned, the second update is under
\* way and has overwritten part of the metrics, and a reader is waiting
C22_Witness ==
  /\ Len(rets) = 1
  /\ rets[1]["last_run"] = 1
  /\ rets[1]["total_mentions"] = 2
  /\ \E u \in Writing : calls[u].pc = "count" /\ metrics.TotalMentions = 0
  /\ \E r \in Readers : calls[r].pc = "RLock"

(***************************************************************************)
(* deduplicateMentions on its own: every adapter ends FetchMentions with   *)
(* its copy of the same function (reddit.go, stackoverflow.go, medium.go,  *)
(* the YouTube adapter), applied here to any list, and to its own result.  *)
(***************************************************************************)
\* mentions that tell apart two occurrences of an ID by their title
DedupMentions ==
  {NewMention(id, "reddit", title, "", 1) :
     id \in {"reddit_1", "reddit_2"}, title \in {"first", "second"}}

\* the lists of at most MaxMentions such mentions
DedupLists == UNION {[1..n -> DedupMentions] : n \in 0..MaxMentions}

\* the loop of deduplicateMentions from some mention on: seen is the map of
\* the IDs met, kept the result slice built so far
RECURSIVE deduplicateFrom(_, _, _)
deduplicateFrom(mentions, seen, kept) ==
  IF mentions = <<>> THEN kept
  ELSE LET mention == Head(mentions)
       IN  IF mention.ID \in seen
             THEN deduplicateFrom(Tail(mentions), seen, kept)
             ELSE deduplicateFrom(Tail(mentions), seen \cup {mention.ID},
                                  Append(kept, mention))

\* a deduplication that lets a later occurrence replace the one it kept
RECURSIVE deduplicateFrom_KeepLast(_, _, _)
deduplicateFrom_KeepLast(mentions, seen, kept) ==
  IF mentions = <<>> THEN kept
  ELSE LET mention == Head(mentions)
       IN  IF mention.ID \in seen
             THEN deduplicateFrom_KeepLast(Tail(mentions), seen,
                    [i \in 1..Len(kept) |->
                       IF kept[i].ID = mention.ID THEN mention ELSE kept[i]])
             ELSE deduplicateFrom_KeepLast(Tail(mentions), seen \cup {mention.ID},
                                           Append(kept, mention))

deduplicateMentions_KeepLast(mentions) == deduplicateFrom_KeepLast(mentions, {}, <<>>)

deduplicateMentions(mentions) == deduplicateFrom(mentions, {}, <<>>)

InitDedup ==
  /\ AtRest
  /\ arg \in DedupLists
  /\ rets = <<>>
  /\ calls = <<>>

\* deduplicateMentions is applied to arg, then to its own result
ApplyDeduplicate ==
  /\ Len(rets) < 2
  /\ rets' = Append(rets, deduplicateMentions(IF rets = <<>> THEN arg ELSE rets[Len(rets)]))
  /\ UNCHANGED <<arg, serviceVars>>

NextDedup == ApplyDeduplicate

SpecDedup == InitDedup /\ [][NextDedup]_vars

\* the positions of a list that hold the first occurrence of their ID
FirstOccurrences(mentions) ==
  {i \in 1..Len(mentions) : \A j \in 1..(i - 1) : mentions[j].ID # mentions[i].ID}

\* C30: deduplicateMentions: for every input list the result is the
\* sub-sequence of the input made of the first occurrence of each ID, in the
\* order of the input: every distinct ID exactly once, the mention kept being
\* the first one with that ID; and applying it to its own result changes nothing.
C30_DeduplicateMentions ==
  /\ Len(rets) >= 1 =>
        LET firsts == FirstOccurrences(arg)
        IN  /\ Len(rets[1]) = Cardinality(firsts)
            /\ \A k \in 1..Len(rets[1]) : rets[1][k] = arg[KthPosition(firsts, k)]
            /\ \A i, j \in 1..Len(rets[1]) : i # j => rets[1][i].ID # rets[1][j].ID
            /\ {m.ID : m \in Range(rets[1])} = {m.ID : m \in Range(arg)}
  /\ Len(rets) = 2 => rets[2] = rets[1]

\* an ID met three times, with another between: the first of the three is
\* kept, before the other, and the second application returns the same list
C30_Witness ==
  /\ Len(arg) = 3
  /\ arg[1].ID = "reddit_1" /\ arg[1].Title = "first"
  /\ arg[2].ID = "reddit_2"
  /\ arg[3].ID = "reddit_1" /\ arg[3].Title = "second"
  /\ Len(rets) = 2
  /\ rets[2] = <<arg[1], arg[2]>>

(***************************************************************************)
(* FetchMentions of each adapter on its own.  An adapter works through     *)
(* units of work, each one HTTP request: a subreddit of a keyword          *)
(* (Reddit), a keyword (Stack Overflow, Twitter), a listed item (Hacker    *)
(* News), a video search, the related-video search and a comment fetch of  *)
(* a keyword (YouTube), a tag feed of a keyword (Medium), a Pulse or posts *)
(* search of a keyword (LinkedIn).  The platform answers each request, and *)
(* the run's context is cancelled after some number of requests.           *)
(***************************************************************************)
MaxKeywords == 2
MaxSubunits == 2
MaxFaults == 2

\* the adapters; the sources hold two TwitterSource types, twitter.go and the
\* one with rate-limit handling, of which a build has one
Adapters ==
  {"reddit", "stackoverflow", "hackernews", "twitter", "twitter429", "youtube",
   "medium", "linkedin"}

\* Source.GetName
GetName(a) == IF a = "twitter429" THEN "twitter" ELSE a

\* the keywords FetchMentions is passed
AdapterKeywords ==
  SubSeq(<<"AKS", "KAITO", "Azure Kubernetes Service">>, 1, MaxKeywords)

\* the configurations an adapter is built from: without and with credentials
AdapterConfigs ==
  {[DefaultConfig EXCEPT !.Keywords = AdapterKeywords],
   [DefaultConfig EXCEPT !.Keywords = AdapterKeywords, !.RedditClientID = "id",
                         !.TwitterBearerToken = "token", !.YouTubeAPIKey = "key"]}

\* MediumSource.generateTags for the keywords above
generateTags(keyword) ==
  CASE keyword = "AKS" -> <<"azure", "microsoft-azure", "aks">>
    [] keyword = "KAITO" -> <<"azure", "ai", "kubernetes", "machine-learning">>
    [] keyword = "Azure Kubernetes Service" ->
         <<"azure", "microsoft-azure", "aks", "azure-kubernetes-service">>

\* the requests an adapter makes for one keyword, in order; at most
\* MaxSubunits of the subreddits and of the tags
Parts(a, keyword) ==
  CASE a = "reddit" ->
         SubSeq(<<"kubernetes", "azure", "devops", "docker", "cloudcomputing",
                  "sysadmin", "programming">>, 1, MaxSubunits)
    [] a = "medium" -> SubSeq(generateTags(keyword), 1, MaxSubunits)
    [] a = "youtube" -> <<"videos", "related videos", "comments">>
    [] a = "linkedin" -> <<"pulse", "posts">>
    [] a = "twitter429" /\ keyword = "Azure Kubernetes Service" -> <<>>
    [] OTHER -> <<"search">>

RECURSIVE UnitsFrom(_, _, _)
UnitsFrom(a, keywords, i) ==
  IF i > Len(keywords) THEN <<>>
  ELSE LET parts == Parts(a, keywords[i])
       IN  [p \in 1..Len(parts) |->
              [keyword |-> keywords[i], index |-> i, part |-> parts[p]]]
           \o UnitsFrom(a, keywords, i + 1)

\* the units of work of FetchMentions, in the order the loops reach them;
\* Hacker News works through the listed items, at most MaxSubunits of them
Units(a, keywords) ==
  IF a = "hackernews"
    THEN [p \in 1..MaxSubunits |-> [keyword |-> "", index |-> p, part |-> "item"]]
    ELSE UnitsFrom(a, keywords, 1)

\* what the platform holds for unit k: a mention every unit of the adapter
\* finds, and one only this unit finds; the related-video search yields
\* videos whose comments are fetched, no mentions; a Hacker News item is
\* one mention
UnitItems(a, unit, k) ==
  IF unit.part = "related videos" THEN <<>>
  ELSE IF a = "hackernews"
    THEN <<NewMention(<<"hackernews", k>>, "hackernews", unit.part, "", 1)>>
  ELSE <<NewMention(<<GetName(a), 0>>, GetName(a), "shared", "", 1),
         NewMention(<<GetName(a), k>>, GetName(a), unit.part, "", 1)>>

\* the mention scrapeLinkedInContent builds when its request fails
Placeholder(unit, k) ==
  NewMention(<<"linkedin_attempted", k>>, "linkedin",
             "LinkedIn search attempted", "encountered connection issues", 1)

\* the sets of at most MaxFaults of n units
FaultSets(n) == {F \in SUBSET (1..n) : Cardinality(F) <= MaxFaults}

\* the outcomes of what precedes the units: Reddit's token request is
\* answered with a token, with 401 and a JSON error body, or not at all;
\* the Hacker News listing is fetched or not
Preambles(a) ==
  CASE a = "reddit" -> {"ok", "rejected", "error"}
    [] a = "hackernews" -> {"ok", "error"}
    [] OTHER -> {"ok"}

\* the calls of FetchMentions: the adapter, its configuration, and what
\* happens around it: the units whose request is answered with fault (a
\* status or a transport error), and the number of context-bound requests
\* after which the context is cancelled (more than there are: never)
AdapterCalls ==
  UNION {[adapter : {a}, cfg : AdapterConfigs, pre : Preambles(a),
          faults : FaultSets(Len(Units(a, AdapterKeywords))),
          fault : {"429", "500", "error"},
          cancelAfter : 0..(Len(Units(a, AdapterKeywords)) + 2)] : a \in Adapters}

\* a return of FetchMentions with the requests it made
Fetched(mentions, err, requests) ==
  [mentions |-> mentions, err |-> err, requests |-> requests]

\* the context-bound requests made so far are as many as the context lives
Cancelled(a, world, requests) ==
  Len(requests) + (IF a = "hackernews" THEN 1 ELSE 0) >= world.cancelAfter

\* the answer to the request of unit k; a request on a cancelled context
\* returns the context's error, one with no token is answered 401
Response(a, world, k, late) ==
  IF late THEN "error"
  ELSE IF a = "reddit" /\ world.pre = "rejected" THEN "401"
  ELSE IF k \in world.faults THEN world.fault
  ELSE "200"

\* what the function of one unit returns for an answer
UnitOutcome(a, unit, k, resp) ==
  CASE resp = "200" -> [mentions |-> UnitItems(a, unit, k), err |-> NoErr]
    [] resp # "200" /\ a = "linkedin" ->
         [mentions |-> <<Placeholder(unit, k)>>, err |-> NoErr]
    [] resp = "429" /\ a = "twitter429" -> [mentions |-> <<>>, err |-> NoErr]
    [] OTHER -> [mentions |-> <<>>, err |-> "request failed"]

\* the adapter looks at ctx.Done() before this unit
ChecksContext(a, unit) ==
  \/ a = "hackernews"
  \/ a = "twitter429" /\ unit.index > 1

\* the loops of FetchMentions from unit k on; st holds allMentions, the
\* requests made and the error the loop returned with, if it did
RECURSIVE RunUnits(_, _, _, _, _)
RunUnits(a, world, units, k, st) ==
  IF k > Len(units) THEN st
  ELSE
    LET late == Cancelled(a, world, st.requests)
        resp == Response(a, world, k, late)
        outcome == UnitOutcome(a, units[k], k, resp)
    IN  IF ChecksContext(a, units[k]) /\ late
          THEN [st EXCEPT !.err = "context canceled"]
        ELSE IF /\ units[k].part = "comments"
                /\ st.requests[Len(st.requests)].err # NoErr
          THEN RunUnits(a, world, units, k + 1, st)
        ELSE RunUnits(a, world, units, k + 1,
               [st EXCEPT !.mentions = @ \o outcome.mentions,
                          !.requests = Append(@, [unit |-> k, late |-> late,
                                                  response |-> resp,
                                                  err |-> outcome.err])])

\* a FetchMentions that returns the error of a unit instead of dropping it
FetchMentions_Surface(a, world) ==
  LET units == Units(a, world.cfg.Keywords)
      st == RunUnits(a, world, units, 1, Fetched(<<>>, NoErr, <<>>))
  IN  IF a \in {"reddit", "twitter", "twitter429", "youtube"}
           /\ ~IsEnabled(GetName(a), world.cfg)
        THEN Fetched(<<>>, NoErr, <<>>)
      ELSE IF \E i \in 1..Len(st.requests) : st.requests[i].err # NoErr
        THEN Fetched(<<>>, "request failed", st.requests)
      ELSE [st EXCEPT !.mentions = deduplicateMentions(@)]

\* FetchMentions of adapter a
FetchMentions(a, world) ==
  LET units == Units(a, world.cfg.Keywords)
      st == RunUnits(a, world, units, 1, Fetched(<<>>, NoErr, <<>>))
  IN  IF a \in {"reddit", "twitter", "twitter429", "youtube"}
           /\ ~IsEnabled(GetName(a), world.cfg)
        THEN Fetched(<<>>, NoErr, <<>>)
      ELSE IF a = "reddit" /\ world.pre = "error"
        THEN Fetched(<<>>, "reddit authentication failed", <<>>)
      ELSE IF a = "hackernews" /\ (world.pre = "error" \/ world.cancelAfter = 0)
        THEN Fetched(<<>>, "failed to get recent items", <<>>)
      ELSE IF st.err # NoErr \/ a = "hackernews" THEN st
      ELSE [st EXCEPT !.mentions = deduplicateMentions(@)]

InitAdapter ==
  /\ AtRest
  /\ arg \in AdapterCalls
  /\ rets = <<>>
  /\ calls = <<>>

\* the goroutine RunMonitoring starts for the adapter: FetchMentions, then
\* the error to errorsChan or else the mentions to mentionsChan
WorkerFetch ==
  /\ rets = <<>>
  /\ LET fetched == FetchMentions(arg.adapter, arg)
     IN  /\ rets' = <<fetched>>
         /\ IF fetched.err # NoErr
              THEN /\ errorsChan' = Append(errorsChan, fetched.err)
                   /\ UNCHANGED mentionsChan
              ELSE /\ mentionsChan' = Append(mentionsChan, fetched.mentions)
                   /\ UNCHANGED errorsChan
  /\ UNCHANGED <<arg, mu, calls, config, sources, metrics, run, pc, workers,
                 mentionsClosed, errorsClosed, ctxDone, overdue, searchWindow,
                 allMentions, errorCount, urgentMentions, storeCalls, sendCalls,
                 result>>

NextAdapter == WorkerFetch

SpecAdapter == InitAdapter /\ [][NextAdapter]_vars

\* the call under way reaches the adapter's loops: its credentials are
\* configured and what precedes the units succeeds
ReachesUnits ==
  /\ arg.adapter \in {"reddit", "twitter", "twitter429", "youtube"} =>
       IsEnabled(GetName(arg.adapter), arg.cfg)
  /\ arg.pre = "ok"

\* the context of the call under way outlives every request
NeverCancelled == arg.cancelAfter > Len(Units(arg.adapter, arg.cfg.Keywords))

\* the units whose request is answered 200 when the context lives; YouTube
\* fetches comments of the videos a related-video search returned
Answered ==
  LET units == Units(arg.adapter, arg.cfg.Keywords)
  IN  {k \in 1..Len(units) :
         /\ k \notin arg.faults
         /\ units[k].part = "comments" => (k - 1) \notin arg.faults}

\* the units whose request is to be made when the context lives
ToRequest ==
  LET units == Units(arg.adapter, arg.cfg.Keywords)
  IN  {k \in 1..Len(units) :
         units[k].part = "comments" => (k - 1) \notin arg.faults}

\* the platform's mentions of a set of units
ItemsOf(ks) ==
  UNION {Range(UnitItems(arg.adapter, Units(arg.adapter, arg.cfg.Keywords)[k], k)) :
           k \in ks}

\* C27: a total adapter failure is surfaced: when the Reddit adapter's
\* authentication is rejected or fails before any data is fetched,
\* FetchMentions returns a non-nil error, which goes to errorsChan, where the
\* orchestrator counts it.
C27_TotalFailureSurfaced ==
  ( /\ rets # <<>>
    /\ arg.adapter = "reddit"
    /\ IsEnabled("reddit", arg.cfg)
    /\ arg.pre \in {"rejected", "error"} )
  => /\ rets[1].err # NoErr
     /\ errorsChan = <<rets[1].err>>

\* C28: error results carry no data: whenever FetchMentions of any adapter
\* returns a non-nil error, the mention slice returned with it is empty.
C28_ErrorResultsCarryNoData ==
  (rets # <<>> /\ rets[1].err # NoErr) => rets[1].mentions = <<>>

\* C29: cooperative cancellation: every adapter looks at the cancellation
\* signal between units of work: no request is made once the context is
\* cancelled, and the mentions returned are those of the units answered
\* before.
C29_CooperativeCancellation ==
  (rets # <<>> /\ ReachesUnits) =>
     /\ \A i \in 1..Len(rets[1].requests) : ~rets[1].requests[i].late
     /\ Range(rets[1].mentions) =
          ItemsOf({k \in Answered : k <= Len(rets[1].requests)})

\* the units the call under way has made the request of
Requested == {rets[1].requests[i].unit : i \in 1..Len(rets[1].requests)}

\* C26: transient failures are absorbed inside the adapter: for every adapter,
\* if the fetch of some unit fails while the context lives, FetchMentions still
\* makes the request of every remaining unit, returns the mentions of the
\* successful units with a nil error, and nothing goes to errorsChan.
C26_TransientFailuresAbsorbed ==
  (rets # <<>> /\ ReachesUnits /\ NeverCancelled /\ arg.faults # {}) =>
     /\ Requested = ToRequest
     /\ Range(rets[1].mentions) = ItemsOf(Answered)
     /\ rets[1].err = NoErr
     /\ errorsChan = <<>>

\* the adapters that call a rate-limited API
RateLimited == {"reddit", "stackoverflow", "twitter", "twitter429", "youtube"}

\* a call of such an adapter in which some unit is answered 429
Throttled ==
  /\ rets # <<>>
  /\ arg.adapter \in RateLimited
  /\ ReachesUnits /\ NeverCancelled
  /\ arg.fault = "429" /\ arg.faults # {}

FoundItems == [key : {"k1", "k2"}, under : {"azure", "aks"}, second : {1, 2}]

\* Mention.ID as the adapter formats it
mentionID(a, item) ==
  IF a \in {"medium", "linkedin"}
    THEN <<a, item.under, item.second>>
    ELSE <<a, item.key, 0>>

RECURSIVE buildMentions(_, _)
\* the mentions an adapter builds from what it finds, in order
buildMentions(a, items) ==
  IF items = <<>> THEN <<>>
  ELSE <<NewMention(mentionID(a, Head(items)), a, Head(items).key, "", Head(items).second)>>
       \o buildMentions(a, Tail(items))

\* the finds of one FetchMentions call: at most MaxMentions, an item possibly
\* found again by a later request; Hacker News reads one listing, in which
\* no item is repeated
FindLists(a) ==
  {l \in UNION {[1..n -> FoundItems] : n \in 0..MaxMentions} :
     a = "hackernews" => \A i, j \in 1..Len(l) : l[i].key = l[j].key => i = j}

InitIdentifiers ==
  /\ AtRest
  /\ arg \in UNION {[adapter : {a}, items : FindLists(a)] : a \in Range(AllSources)}
  /\ rets = <<>>
  /\ calls = <<>>

\* the end of FetchMentions: the mentions built are deduplicated, except by
\* Hacker News, and returned
ReturnMentions ==
  /\ rets = <<>>
  /\ rets' = <<IF arg.adapter = "hackernews"
                 THEN buildMentions(arg.adapter, arg.items)
                 ELSE deduplicateMentions(buildMentions(arg.adapter, arg.items))>>
  /\ UNCHANGED <<arg, serviceVars>>

NextIdentifiers == ReturnMentions

SpecIdentifiers == InitIdentifiers /\ [][NextIdentifiers]_vars

\* C31: identifier uniqueness: in the list an adapter hands to the run, and so
\* in the stored batch and in Report.Mentions, which concatenate such lists
\* under IDs that begin with the adapter's name, no two mentions have the same
\* ID, and two distinct platform items never share an ID: every item found is
\* in the list.
C31_IdentifierUniqueness ==
  rets # <<>> =>
    /\ \A i, j \in 1..Len(rets[1]) : rets[1][i].ID = rets[1][j].ID => i = j
    /\ \A i, j \in 1..Len(arg.items) :
         arg.items[i].key # arg.items[j].key =>
            mentionID(arg.adapter, arg.items[i]) # mentionID(arg.adapter, arg.items[j])
    /\ {m.Title : m \in Range(rets[1])} = {item.key : item \in Range(arg.items)}

(***************************************************************************)
(* Order, sentiment and frame properties of the run.                       *)
(***************************************************************************)
\* the lists of IDs the run handed to its collaborators: the batches
\* stored and the mention lists of the reports sent
FinalIDLists ==
  {[i \in 1..Len(c.data) |-> c.data[i].id] : c \in Range(storeCalls)}
    \cup {[i \in 1..Len(c.report.Mentions) |-> c.report.Mentions[i].ID] : c \in Range(sendCalls)}

\* the positions of an ID in a list of IDs
PositionsOf(ids, id) == {p \in 1..Len(ids) : ids[p] = id}

\* C32: FIFO within an adapter is preserved end-to-end: for any two mentions
\* returned by the same adapter, one before the other, that are both in a
\* stored batch or in Report.Mentions, the first precedes the second there,
\* whatever the order in which the adapters complete.
C32_FifoWithinAdapter ==
  \A w \in Workers : \A ids \in FinalIDLists :
     LET returned == workers[w].result.mentions
     IN  \A i, j \in 1..Len(returned) :
            i < j => \A p \in PositionsOf(ids, returned[i].ID),
                        q \in PositionsOf(ids, returned[j].ID) : p < q

\* a full run whose second adapter completed first: the report lists its
\* mentions first, then the two mentions of the first adapter in their order
C32_Witness ==
  /\ run = "full"
  /\ Len(sendCalls) = 1
  /\ Len(storeCalls) = 1
  /\ Len(workers[1].result.mentions) = 2
  /\ LET mentions == sendCalls[1].report.Mentions
     IN  /\ Len(mentions) >= 3
         /\ mentions[1].Source = sources[2]
         /\ mentions[Len(mentions) - 1].ID = workers[1].result.mentions[1].ID
         /\ mentions[Len(mentions)].ID = workers[1].result.mentions[2].ID

\* the ID and label pairs of the mentions the run holds
Labelled == {<<allMentions[i].ID, allMentions[i].Sentiment>> : i \in 1..Len(allMentions)}

\* C33: sentiment is write-once per run: a step of the run changes the
\* Sentiment field of a mention only from unset to the label the sentiment
\* scorer gives its content, in the analysis step of RunMonitoring; a label is
\* never changed afterwards, and the stored batch and the report carry the
\* labels of the run's list.
C33_SentimentWriteOnce ==
  /\ [][\A i \in 1..Len(allMentions), j \in 1..Len(allMentions') :
          ( /\ allMentions[i].ID = allMentions'[j].ID
            /\ allMentions'[j].Sentiment # allMentions[i].Sentiment ) =>
               /\ allMentions[i].Sentiment = ""
               /\ run = "full" /\ pc = "process" /\ config.EnableSentimentAnalysis
               /\ allMentions'[j].Sentiment = basicSentimentAnalysis(allMentions[i].Content)]_vars
  /\ [](\A c \in Range(sendCalls) :
          \A i \in 1..Len(c.report.Mentions) :
             <<c.report.Mentions[i].ID, c.report.Mentions[i].Sentiment>> \in Labelled)
  /\ [](\A c \in Range(storeCalls) :
          \A i \in 1..Len(c.data) : <<c.data[i].id, c.data[i].sentiment>> \in Labelled)

\* a full run with sentiment analysis on whose report carries a negative and
\* a positive label, as the run's list does
C33_Witness ==
  /\ run = "full"
  /\ config.EnableSentimentAnalysis
  /\ pc = "returned"
  /\ Len(sendCalls) = 1
  /\ sendCalls[1].report.Mentions = allMentions
  /\ \E m \in Range(allMentions) : m.Sentiment = "negative"
  /\ \E m \in Range(allMentions) : m.Sentiment = "positive"

RECURSIVE IsSubsequence(_, _)
\* s can be obtained from t by leaving out elements
IsSubsequence(s, t) ==
  IF s = <<>> THEN TRUE
  ELSE IF t = <<>> THEN FALSE
  ELSE IF Head(s) = Head(t) THEN IsSubsequence(Tail(s), Tail(t))
  ELSE IsSubsequence(s, Tail(t))

\* the mentions the adapters of the run returned with a nil error
ReturnedMentions == UNION {Range(workers[w].result.mentions) : w \in Succeeded}

\* C34: frame conditions of the enrichment steps: on the list a run has
\* collected, filterByContext returns a subsequence of its input, with no
\* field of any mention changed, and analyzeSentiment returns the same
\* mentions with only the Sentiment field changed; every mention stored or
\* reported is a mention an adapter returned, with its ID, CreatedAt and every
\* other field but Sentiment as the adapter set them.
C34_FrameConditions ==
  /\ pc \in {"process", "filterUrgent"} =>
        /\ IsSubsequence(filterByContext(allMentions), allMentions)
        /\ LET analyzed == analyzeSentiment(allMentions)
           IN  /\ Len(analyzed) = Len(allMentions)
               /\ \A i \in 1..Len(allMentions) :
                     [analyzed[i] EXCEPT !.Sentiment = allMentions[i].Sentiment] = allMentions[i]
  /\ \A c \in Range(sendCalls) : \A m \in Range(c.report.Mentions) :
        [m EXCEPT !.Sentiment = ""] \in ReturnedMentions
  /\ \A c \in Range(storeCalls) : \A i \in 1..Len(c.data) :
        \E m \in ReturnedMentions : c.data[i] = [jsonMarshal(<<m>>)[1] EXCEPT !.sentiment = c.data[i].sentiment]

\* a full run with both steps enabled: a collected mention was filtered out,
\* and the report carries a labelled mention that is otherwise as returned
C34_Witness ==
  /\ run = "full"
  /\ config.EnableContextFiltering /\ config.EnableSentimentAnalysis
  /\ Len(sendCalls) = 1
  /\ Len(storeCalls) = 1
  /\ \E m \in ReturnedMentions : m.ID \notin {n.ID : n \in Range(sendCalls[1].report.Mentions)}
  /\ \E m \in Range(sendCalls[1].report.Mentions) :
        m.Sentiment # "" /\ [m EXCEPT !.Sentiment = ""] \in ReturnedMentions

\* the Run Metrics are those updateMetrics leaves for the run in progress,
\* and not those of an earlier run
ReflectThisRun ==
  /\ metrics = updatedMetrics(metrics, allMentions, errorCount, metrics.LastRun)
  /\ metrics.LastRun \notin {m.LastRun : m \in EarlierMetrics(config)}

\* C35: full-run ordering: in RunMonitoring the Run Metrics change in one
\* step only, after Store has completed without an error and before
\* SendReport is attempted, and SendReport is attempted only with the Run
\* Metrics already updated; so when SendReport fails the run returns the error
\* with the Run Metrics reflecting this run, and when Store fails the Run
\* Metrics keep the values of the previous run and nothing is sent.
C35_FullRunOrdering ==
  /\ [][(run = "full" /\ metrics' # metrics) =>
          /\ pc = "metrics"
          /\ ~StoreFailed
          /\ Len(allMentions) > 0 => Len(storeCalls) = 1
          /\ sendCalls = <<>>
          /\ metrics' = updatedMetrics(metrics, allMentions, errorCount, metrics.LastRun + 1)]_vars
  /\ [][(run = "full" /\ sendCalls' # sendCalls) =>
          ReflectThisRun /\ storeCalls' = storeCalls /\ metrics' = metrics]_vars
  /\ [](run = "full" /\ pc = "returned" /\ result = "send failed" => ReflectThisRun)
  /\ [](run = "full" /\ StoreFailed =>
          /\ pc = "returned" /\ result = "store failed"
          /\ metrics \in EarlierMetrics(config)
          /\ sendCalls = <<>>)

\* a run after an earlier one: the batch was stored, SendReport failed, and
\* the run returned the error with the Run Metrics of this run
C35_Witness ==
  /\ run = "full"
  /\ pc = "returned"
  /\ result = "send failed"
  /\ Len(storeCalls) = 1 /\ ~StoreFailed
  /\ Len(sendCalls) = 1
  /\ metrics.LastRun = 2
  /\ metrics.TotalMentions = Len(allMentions)
  /\ metrics \notin EarlierMetrics(config)

(***************************************************************************)
(* The notification service's batched delivery to a Logic Apps endpoint    *)
(* (sendLogicAppsInBatches), on its own: a report of any size, and the     *)
(* endpoint rejecting one of the messages or none.                         *)
(***************************************************************************)
batchSize == 20
MaxReportSize == 41

\* a report of n mentions as generateReport builds it
ReportOf(n) ==
  generateReport([i \in 1..n |-> NewMention(i, "reddit", "AKS cve", "bad bug", i)],
                 DefaultConfig, IF n = 0 THEN <<>> ELSE <<"reddit">>)

\* buildLogicAppMessage: the title and summary, and the mentions in the
\* Logic Apps format (no ID and no sentiment; the titles and contents here
\* are shorter than the truncation limits)
buildLogicAppMessage(report) ==
  [Title |-> <<"AKS Mentions Report", report.Period>>,
   Summary |-> [found |-> report.TotalMentions, period |-> report.Period],
   Mentions |-> [i \in 1..Len(report.Mentions) |->
                   [Source |-> report.Mentions[i].Source,
                    Title |-> report.Mentions[i].Title,
                    Snippet |-> report.Mentions[i].Content,
                    Timestamp |-> report.Mentions[i].CreatedAt]]]

\* fault for C36: a batch report that counts the mentions of the batch
batchReport_OwnCount(report, i, end) ==
  [report EXCEPT !.TotalMentions = end - i,
                 !.Mentions = SubSeq(report.Mentions, i + 1, end)]

\* the batch report of report.Mentions[i:end]
batchReport(report, i, end) ==
  [report EXCEPT !.TotalMentions = Len(report.Mentions),
                 !.Mentions = SubSeq(report.Mentions, i + 1, end)]

RECURSIVE SendBatchesFrom(_, _, _, _)
\* the loop of sendLogicAppsInBatches from offset i on; the endpoint rejects
\* message number failAt (none if it is 0); posts are the messages posted so
\* far, each with the batch report it was built from and the answer
SendBatchesFrom(report, i, failAt, posts) ==
  IF i >= Len(report.Mentions) THEN [posts |-> posts, err |-> NoErr]
  ELSE
    LET totalBatches == (Len(report.Mentions) + batchSize - 1) \div batchSize
        end == IF i + batchSize > Len(report.Mentions)
               THEN Len(report.Mentions) ELSE i + batchSize
        batch == batchReport(report, i, end)
        batchNum == (i \div batchSize) + 1
        message == [buildLogicAppMessage(batch) EXCEPT
                      !.Title = <<@, "Batch", batchNum, totalBatches>>,
                      !.Summary = [batch |-> batchNum, of |-> totalBatches,
                                   mentions |-> Len(batch.Mentions),
                                   total |-> report.TotalMentions]]
        answer == IF failAt = batchNum THEN "webhook returned status 500" ELSE NoErr
        posted == Append(posts, [report |-> batch, message |-> message, err |-> answer])
    IN  IF answer # NoErr
          THEN [posts |-> posted, err |-> "failed to send batch"]
          ELSE SendBatchesFrom(report, i + batchSize, failAt, posted)

\* Service.sendLogicAppsInBatches
sendLogicAppsInBatches(report, failAt) == SendBatchesFrom(report, 0, failAt, <<>>)

InitBatches ==
  /\ AtRest
  /\ arg \in [report : {ReportOf(n) : n \in 0..MaxReportSize}, failAt : 0..3]
  /\ rets = <<>>
  /\ calls = <<>>

ApplySendLogicAppsInBatches ==
  /\ rets = <<>>
  /\ rets' = <<sendLogicAppsInBatches(arg.report, arg.failAt)>>
  /\ UNCHANGED <<arg, serviceVars>>

NextBatches == ApplySendLogicAppsInBatches

SpecBatches == InitBatches /\ [][NextBatches]_vars

\* ceil(n / 20)
BatchesNeeded(n) == CHOOSE k \in 0..n : 20 * k >= n /\ (k > 0 => 20 * (k - 1) < n)

\* C36: batched delivery partitions the report: for a report with n mentions
\* sendLogicAppsInBatches posts ceil(n/20) messages in order, the k-th built
\* from mentions 20(k-1)+1 to min(20k, n) of the report, so that each carries
\* at most 20 mentions and the batches concatenated are report.Mentions; every
\* batch states the full total n; if the endpoint rejects a message, no later
\* one is posted and an error is returned.
C36_BatchesPartitionReport ==
  rets # <<>> =>
    LET mentions == arg.report.Mentions
        n == Len(mentions)
        posts == rets[1].posts
        rejected == arg.failAt \in 1..BatchesNeeded(n)
    IN  /\ Len(posts) = IF rejected THEN arg.failAt ELSE BatchesNeeded(n)
        /\ rets[1].err = NoErr <=> ~rejected
        /\ \A k \in 1..Len(posts) :
              LET last == IF 20 * k > n THEN n ELSE 20 * k
              IN  /\ posts[k].report.Mentions = SubSeq(mentions, 20 * (k - 1) + 1, last)
                  /\ Len(posts[k].report.Mentions) \in 1..20
                  /\ posts[k].message.Mentions =
                        buildLogicAppMessage(posts[k].report).Mentions
                  /\ posts[k].report.TotalMentions = n
                  /\ posts[k].message.Summary.total = n
                  /\ posts[k].message.Summary.batch = k
                  /\ posts[k].err = NoErr <=> ~(rejected /\ k = arg.failAt)
        /\ ~rejected =>
              \A i \in 1..n : posts[((i - 1) \div 20) + 1].report.Mentions[((i - 1) % 20) + 1] = mentions[i]

\* 41 mentions, no rejection: three messages of 20, 20 and 1 mentions
C36_Witness ==
  /\ rets # <<>>
  /\ Len(arg.report.Mentions) = 41
  /\ arg.failAt = 0
  /\ Len(rets[1].posts) = 3
  /\ Len(rets[1].posts[3].message.Mentions) = 1
  /\ rets[1].posts[3].message.Summary.total = 41
  /\ rets[1].err = NoErr

(***************************************************************************)
(* The fan-in of the adapters' results.                                    *)
(***************************************************************************)
\* the workers that return from FetchMentions and send in the step
Sending == {w \in Workers : workers[w].state = "running" /\ workers'[w].state = "done"}

\* C37: fan-in channel protocol safety: in every run each adapter worker
\* performs exactly one send, on exactly one of mentionsChan and errorsChan,
\* and never on a closed channel; both channels are closed exactly once, in
\* one step, and only after every worker has finished.
C37_FanInProtocol ==
  /\ [][\A w \in Sending :
          /\ ~mentionsClosed /\ ~errorsClosed
          /\ LET res == workers'[w].result
             IN  \/ /\ res.err = NoErr
                    /\ mentionsChan' = Append(mentionsChan, res.mentions)
                    /\ errorsChan' = errorsChan
                 \/ /\ res.err # NoErr
                    /\ errorsChan' = Append(errorsChan, res.err)
                    /\ mentionsChan' = mentionsChan]_vars
  /\ [][(Len(mentionsChan') > Len(mentionsChan) \/ Len(errorsChan') > Len(errorsChan)) =>
          Cardinality(Sending) = 1]_vars
  /\ [][\A w \in Workers : workers[w].state = "done" => workers'[w] = workers[w]]_vars
  /\ [][(mentionsClosed' # mentionsClosed \/ errorsClosed' # errorsClosed) =>
          /\ AllDone
          /\ ~mentionsClosed /\ ~errorsClosed
          /\ mentionsClosed' /\ errorsClosed']_vars
  /\ []((mentionsClosed \/ errorsClosed) => AllDone)

\* a run whose adapters have all sent, one on each channel, before the
\* channels were closed
C37_Witness ==
  /\ run # "none"
  /\ pc = "collect"
  /\ AllDone
  /\ mentionsClosed /\ errorsClosed
  /\ Len(mentionsChan) = 1
  /\ Len(errorsChan) = 1

\* the steps of the goroutine that executes the run, after it has started
\* the workers
MainGoroutine ==
  \/ Collect
  \/ CollectDone
  \/ CountError
  \/ CountErrorsDone
  \/ FilterAndAnalyze
  \/ StoreMentions
  \/ UpdateMetrics
  \/ GenerateAndSendReport
  \/ FilterUrgent
  \/ StoreUrgent
  \/ SendUrgentNotification

\* a service whose Reddit adapter has credentials, so that an adapter can
\* fail, and with ENABLE_SENTIMENT_ANALYSIS=false
LiveConfig ==
  [DefaultConfig EXCEPT !.RedditClientID = "id", !.EnableSentimentAnalysis = FALSE]

InitLive ==
  /\ NewService({LiveConfig})
  /\ sources = SubSeq(AllSources, 1, NumSources)
  /\ arg = <<>>
  /\ rets = <<>>
  /\ calls = <<>>

\* the runs under fair scheduling of the goroutines, with every
\* FetchMentions call returning eventually
SpecLive ==
  /\ InitLive
  /\ [][Next]_vars
  /\ \A w \in Workers : WF_vars(WorkerReturn(w))
  /\ WF_vars(CloseChannels)
  /\ WF_vars(MainGoroutine)

\* C38: fan-in termination: if every adapter's FetchMentions eventually
\* returns, then under fair scheduling a RunMonitoring or RunUrgentCheck
\* invocation eventually finishes collecting and returns; neither channel
\* ever holds more values than its capacity, the number of sources, so no
\* worker blocks on its send, also in RunUrgentCheck, which never receives
\* from errorsChan.
C38_FanInTermination ==
  /\ (run # "none") ~> (pc = "returned")
  /\ [](pc = "returned" => Collected /\ AllDone)
  /\ [](Len(mentionsChan) <= Len(sources) /\ Len(errorsChan) <= Len(sources))
  /\ []((run = "urgent" /\ pc = "returned") =>
          Len(errorsChan) = Cardinality(Errored))

\* an urgent check that returned with the error of an adapter still in errorsChan
C38_Witness ==
  /\ run = "urgent"
  /\ pc = "returned"
  /\ AllDone
  /\ Len(errorsChan) >= 1
  /\ Len(mentionsChan) = 0

\* C39: artifact consistency within a full run. In a RunMonitoring
\* invocation that reaches SendReport, the batch handed to Store, the list
\* counted into the run metrics and Report.Mentions are one list: the same
\* mentions in the same order with the same sentiment labels, so the size of
\* the stored batch, Metrics.TotalMentions and Report.TotalMentions are equal.
\* Store receives no batch when the list is empty.
C39_ArtifactConsistency ==
  (run = "full" /\ sendCalls # <<>>) =>
     LET report == sendCalls[1].report
     IN  /\ Len(sendCalls) = 1
         /\ report.TotalMentions = Len(report.Mentions)
         /\ metrics.TotalMentions = report.TotalMentions
         /\ metrics.SourceMetrics = CountBySource(report.Mentions)
         /\ metrics.SentimentBreakdown = CountBySentiment(report.Mentions)
         /\ report.Summary["sources"] = metrics.SourceMetrics
         /\ report.Summary["sentiment"] = metrics.SentimentBreakdown
         /\ Len(storeCalls) = (IF report.TotalMentions = 0 THEN 0 ELSE 1)
         /\ \A c \in Range(storeCalls) :
               /\ c.err = NoErr
               /\ Len(c.data) = report.TotalMentions
               /\ \A i \in 1..Len(c.data) :
                     /\ c.data[i].id = report.Mentions[i].ID
                     /\ c.data[i].source = report.Mentions[i].Source
                     /\ c.data[i].sentiment = report.Mentions[i].Sentiment

C39_Witness ==
  /\ run = "full"
  /\ pc = "returned"
  /\ result = NoErr
  /\ Len(sendCalls) = 1
  /\ Len(storeCalls) = 1
  /\ Len(storeCalls[1].data) >= 2
  /\ metrics.TotalMentions = sendCalls[1].report.TotalMentions
  /\ \E i \in 1..Len(storeCalls[1].data) : storeCalls[1].data[i].sentiment # ""
  /\ \E m \in Range(sendCalls[1].report.Mentions) : ~isRelevantMention(m)

\* the adapters of an urgent check delivered nothing urgent: each of them
\* returned an error or a list without an urgent mention
NothingUrgentDelivered ==
  \A w \in Workers :
     \/ w \in Errored
     \/ w \in Succeeded /\ filterUrgentMentions(workers[w].result.mentions) = <<>>

\* C40: adapter errors are invisible in urgent checks. No step of
\* RunUrgentCheck changes the run metrics or counts an error; an error it
\* returns is the error of its own Store or notification call, never an
\* adapter's; and when every adapter returned an error or nothing urgent, it
\* returns nil without storing or notifying, the same whether adapters failed
\* or not.
C40_AdapterErrorsInvisible ==
  /\ [][run = "urgent" => metrics' = metrics /\ errorCount' = errorCount]_vars
  /\ [](run = "urgent" =>
          /\ errorCount = 0
          /\ result \in {"running", NoErr, "store failed",
                         "failed to send urgent notification: send failed"}
          /\ result = "store failed" => StoreFailed
          /\ result = "failed to send urgent notification: send failed" =>
                \E c \in Range(sendCalls) : c.err # NoErr)
  /\ [](run = "urgent" /\ pc = "returned" /\ NothingUrgentDelivered =>
          /\ result = NoErr
          /\ storeCalls = <<>>
          /\ sendCalls = <<>>)

C40_Witness ==
  /\ run = "urgent"
  /\ pc = "returned"
  /\ Errored # {}
  /\ NothingUrgentDelivered
  /\ errorsChan # <<>>
  /\ result = NoErr
  /\ storeCalls = <<>>
  /\ sendCalls = <<>>

====
